---- MODULE Spec2Model ----
(***************************************************************************)
(* makepkg: dependency resolver (pkg/build GetBuildOrder), worker pool     *)
(* (pkg/build WorkerPool), fingerprint cache (pkg/cache) and build driver  *)
(* (pkg/build Builder, main).                                              *)
(*                                                                         *)
(* The specifications share the variables:                                 *)
(*   SpecOrder  GetBuildOrder applied to every catalog of a bounded family *)
(*   SpecPool   a WorkerPool under arbitrary Submit / SubmitWithStop calls *)
(*   SpecCache  one cache query over a package and its build directory     *)
(*   SpecSignal the run of Spec with SIGINT / SIGTERM arriving at any time  *)
(*   SpecAlwaysMake  main with --always-make: Builder.Clean, then Build     *)
(*   SpecFilter the run of Spec over more package argument lists            *)
(*   SpecGit    the run of Spec over a catalog with a git source            *)
(*   SpecRuns   consecutive runs of main over one build directory           *)
(*   SpecEdits  SpecRuns with the catalog edited between the runs           *)
(*   SpecWrite  Cache.WriteBuild and Cache.WriteInstall calls               *)
(*   SpecDownload  Environment.downloadFile and its retry loop              *)
(*   SpecTar    extractArchive over bounded tar archives                    *)
(*   SpecSubst  Manager.Subst over bounded strings and environments         *)
(*   SpecRefetch  consecutive runs over an empty build directory            *)
(*   SpecReinstall  the run of Spec with edited install recipes             *)
(*   SpecTwice  two runs over build directories of every kind               *)
(*   SpecLive   the run of Spec under fair scheduling                       *)
(*   SpecClean  Builder.cleanPackage over every outcome of its steps        *)
(*   SpecStop   concurrent calls of Builder.stop and Builder.isStopped      *)
(*   SpecEnv    mergedEnv: Get, Set, PrependToVar and ToSlice               *)
(*   Spec       one run of main: Builder.Build over a catalog and a build  *)
(*              directory, then the summary and the exit of the process    *)
(***************************************************************************)
EXTENDS Integers, Sequences, FiniteSets, TLC

VARIABLES
    cfg,          \* config.Config.Packages: sequence of package records
    iterOrder,    \* the order in which this run's Go map iteration yields the names
    buildOrder,   \* what GetBuildOrder returned: [err, levels], or NotCalled
    builderCfg,   \* BuilderConfig, with the Builder's sysroot and host
    filterSet,    \* Build's filterSet: the requested packages and their dependencies
    disk,         \* the build directory: per package cache file, source tree, archive, artifacts
    stopped,      \* Builder.stopped, which is also "stopChan is closed"
    results,      \* Builder.results
    pool,         \* the WorkerPool of the current level: [maxWorkers, sem, wg]
    task,         \* per submitted closure: the place of its goroutine and its locals
    main,         \* the main goroutine: [pc, level, idx, filtered, errors, ret, exit]
    call          \* SpecCache: the result of one cache call; Spec: the build
                  \* directory at the start of the run (history)

vars == <<cfg, iterOrder, buildOrder, builderCfg, filterSet, disk, stopped, results,
          pool, task, main, call>>


\* ------------------------------------------------------------------ bounds

\* Largest number of depends_on entries of a package in the exhaustive family.
MaxDeps == 2

\* ---------------------------------------------------------------- catalogs

\* Names of the exhaustive catalog family, in declaration order.
OrderNames == <<"a", "b", "c">>

\* A depends_on target that no package of a catalog defines.
Undefined == "x"

NotCalled == [err |-> "notcalled", levels |-> <<>>]

Range(s) == {s[i] : i \in 1..Len(s)}

\* All sequences that enumerate the set S once each.
RECURSIVE PermSeqs(_)
PermSeqs(S) ==
    IF S = {} THEN {<<>>}
    ELSE UNION {{<<x>> \o p : p \in PermSeqs(S \ {x})} : x \in S}

\* A package definition. url, build and install stand for texts (0 is the
\* empty text); env is the list of KEY=VALUE entries.
Pkg(name, deps) ==
    [name |-> name, url |-> 1, build |-> 1, install |-> 1, env |-> <<1>>, depends_on |-> deps]

PkgNames(c) == {c[i].name : i \in 1..Len(c)}

\* config.Config.GetPackageByName: the first package carrying the name.
GetPackageByName(c, name) ==
    LET idx == {i \in 1..Len(c) : c[i].name = name}
    IN  c[CHOOSE i \in idx : \A j \in idx : i <= j]

\* ----------------------------------------------------------- GetBuildOrder

\* reverseGraph[dep]: the packages naming dep, in declaration order, one entry
\* per depends_on entry (dependency.go:27-32).
RECURSIVE ReverseGraphFrom(_, _, _, _)
ReverseGraphFrom(c, dep, i, acc) ==
    IF i > Len(c) THEN acc
    ELSE ReverseGraphFrom(c, dep, i + 1,
            acc \o
            [k \in 1..Cardinality({k \in 1..Len(c[i].depends_on) : c[i].depends_on[k] = dep})
                |-> c[i].name])

ReverseGraph(c, dep) == ReverseGraphFrom(c, dep, 1, <<>>)

\* An in-degree that counts at most one dependency per package.
ReverseInDegreeAtMostOne(c) ==
    [n \in PkgNames(c) |->
        LET idx == {i \in 1..Len(c) : c[i].name = n}
            last == CHOOSE i \in idx : \A j \in idx : j <= i
        IN  IF Len(c[last].depends_on) = 0 THEN 0 ELSE 1]

\* reverseInDegree: len(DependsOn) of the last package carrying the name.
ReverseInDegree(c) ==
    [n \in PkgNames(c) |->
        LET idx == {i \in 1..Len(c) : c[i].name = n}
            last == CHOOSE i \in idx : \A j \in idx : j <= i
        IN  Len(c[last].depends_on)]

\* The inner loop over reverseGraph[name] (dependency.go:52-57): st = [deg, q].
RECURSIVE DecrementDependents(_, _, _)
DecrementDependents(deps, i, st) ==
    IF i > Len(deps) THEN st
    ELSE LET d    == deps[i]
             deg2 == [st.deg EXCEPT ![d] = @ - 1]
         IN  DecrementDependents(deps, i + 1,
                [deg |-> deg2,
                 q   |-> IF deg2[d] = 0 THEN Append(st.q, d) ELSE st.q])

\* One pass over the queue (dependency.go:50-58).
RECURSIVE ProcessQueue(_, _, _, _)
ProcessQueue(c, queue, i, st) ==
    IF i > Len(queue) THEN st
    ELSE ProcessQueue(c, queue, i + 1,
            DecrementDependents(ReverseGraph(c, queue[i]), 1, st))

\* A resolver that appends every queue to one flat level instead of opening a
\* new level per pass.
RECURSIVE LevelLoopFlat(_, _, _, _, _)
LevelLoopFlat(c, queue, deg, levels, processed) ==
    IF Len(queue) = 0 THEN [levels |-> levels, processed |-> processed]
    ELSE LET st == ProcessQueue(c, queue, 1, [deg |-> deg, q |-> <<>>])
         IN  LevelLoopFlat(c, st.q, st.deg,
                IF levels = <<>> THEN <<queue>> ELSE <<levels[1] \o queue>>,
                processed + Len(queue))

\* The level loop (dependency.go:44-60): returns [levels, processed].
RECURSIVE LevelLoop(_, _, _, _, _)
LevelLoop(c, queue, deg, levels, processed) ==
    IF Len(queue) = 0 THEN [levels |-> levels, processed |-> processed]
    ELSE LET st == ProcessQueue(c, queue, 1, [deg |-> deg, q |-> <<>>])
         IN  LevelLoop(c, st.q, st.deg, Append(levels, queue), processed + Len(queue))

MissingDependency(c) ==
    \E i \in 1..Len(c) : \E k \in 1..Len(c[i].depends_on) :
        c[i].depends_on[k] \notin PkgNames(c)

\* A resolver that returns what the level loop emitted without comparing the
\* number of processed packages with the size of the catalog.
GetBuildOrderNoCount(c, iter) ==
    IF MissingDependency(c) THEN [err |-> "missing", levels |-> <<>>]
    ELSE LET deg   == ReverseInDegree(c)
             queue == SelectSeq(iter, LAMBDA n : deg[n] = 0)
         IN  [err |-> "none", levels |-> LevelLoop(c, queue, deg, <<>>, 0).levels]

\* GetBuildOrder (dependency.go:11-67). iter is the order in which the range
\* over the reverseInDegree map yields its keys.
GetBuildOrder(c, iter) ==
    IF MissingDependency(c) THEN [err |-> "missing", levels |-> <<>>]
    ELSE LET deg   == ReverseInDegree(c)
             queue == SelectSeq(iter, LAMBDA n : deg[n] = 0)
             r     == LevelLoop(c, queue, deg, <<>>, 0)
         IN  IF r.processed # Len(c)
             THEN [err |-> "circular", levels |-> <<>>]
             ELSE [err |-> "none", levels |-> r.levels]

\* -------------------------------------------------------------- pkg/cache

\* What <buildDir>/<pkg>/makepkg.json holds: no file, a file that cannot be
\* read or parsed, or an Info record (a field missing in the JSON decodes as
\* the empty value).
CacheAbsent ==
    [state |-> "absent", url |-> 0, build |-> 0, install |-> 0, env |-> <<>>,
     host |-> 0, sysroot |-> 0]

CacheCorrupt == [CacheAbsent EXCEPT !.state = "corrupt"]

\* The zero Info{} that WriteBuild and WriteInstall start from without a file.
EmptyInfo == [CacheAbsent EXCEPT !.state = "ok"]

\* cache.Read: "err" for an unreadable file, "nil" for no file, else the Info.
Read(c) ==
    IF c.state = "corrupt" THEN [kind |-> "err", info |-> EmptyInfo]
    ELSE IF c.state = "absent" THEN [kind |-> "nil", info |-> EmptyInfo]
    ELSE [kind |-> "ok", info |-> c]

RECURSIVE SlicesEqualFrom(_, _, _)
SlicesEqualFrom(a, b, i) ==
    IF i > Len(a) THEN TRUE
    ELSE IF a[i] # b[i] THEN FALSE
    ELSE SlicesEqualFrom(a, b, i + 1)

\* A comparison that finds every two lists different.
stringSlicesEqualNever(a, b) == FALSE

stringSlicesEqual(a, b) ==
    IF Len(a) # Len(b) THEN FALSE ELSE SlicesEqualFrom(a, b, 1)

\* A cache check that forgets the sysroot.
checkCommonCacheChangesNoSysroot(info, pkg, sysroot, host) ==
    IF ~stringSlicesEqual(info.env, pkg.env) THEN "env vars changed"
    ELSE IF info.host # host THEN "host changed"
    ELSE ""

\* cache.checkCommonCacheChanges: the reason, "" for no change.
checkCommonCacheChanges(info, pkg, sysroot, host) ==
    IF ~stringSlicesEqual(info.env, pkg.env) THEN "env vars changed"
    ELSE IF info.host # host THEN "host changed"
    ELSE IF info.sysroot # sysroot THEN "sysroot changed"
    ELSE ""

Answer(needs, reason, err) == [needs |-> needs, reason |-> reason, err |-> err]

\* cache.needsRebuildWithReason. d is the package's part of the build directory.
needsRebuildWithReason(d, pkg, sysroot, host) ==
    LET r == Read(d.cache)
    IN  IF r.kind = "err" THEN Answer(FALSE, "", TRUE)
        ELSE IF r.kind = "nil" THEN Answer(TRUE, "no cache exists", FALSE)
        ELSE IF r.info.url # pkg.url THEN Answer(TRUE, "URL changed", FALSE)
        ELSE IF r.info.build # pkg.build THEN Answer(TRUE, "build script changed", FALSE)
        ELSE IF checkCommonCacheChanges(r.info, pkg, sysroot, host) # ""
            THEN Answer(TRUE, checkCommonCacheChanges(r.info, pkg, sysroot, host), FALSE)
        ELSE IF d.source = "absent"
            THEN Answer(TRUE, "source directory doesn't exist", FALSE)
        ELSE Answer(FALSE, "", FALSE)

\* A reinstall check that does not compare the install text.
needsReinstallIgnoresInstall(d, pkg, sysroot, host) ==
    LET r == Read(d.cache)
    IN  IF r.kind = "err" THEN Answer(FALSE, "", TRUE)
        ELSE IF r.kind = "nil" THEN Answer(TRUE, "no cache exists", FALSE)
        ELSE IF checkCommonCacheChanges(r.info, pkg, sysroot, host) # ""
            THEN Answer(TRUE, checkCommonCacheChanges(r.info, pkg, sysroot, host), FALSE)
        ELSE Answer(FALSE, "", FALSE)

\* cache.needsReinstallWithReason.
needsReinstallWithReason(d, pkg, sysroot, host) ==
    LET r == Read(d.cache)
    IN  IF r.kind = "err" THEN Answer(FALSE, "", TRUE)
        ELSE IF r.kind = "nil" THEN Answer(TRUE, "no cache exists", FALSE)
        ELSE IF r.info.install # pkg.install THEN Answer(TRUE, "install script changed", FALSE)
        ELSE IF checkCommonCacheChanges(r.info, pkg, sysroot, host) # ""
            THEN Answer(TRUE, checkCommonCacheChanges(r.info, pkg, sysroot, host), FALSE)
        ELSE Answer(FALSE, "", FALSE)

\* cache.WriteBuild: the file afterwards (unchanged when the old one cannot be read).
WriteBuild(c, sysroot, host, pkg) ==
    LET r == Read(c)
    IN  IF r.kind = "err" THEN c
        ELSE [r.info EXCEPT !.url = pkg.url, !.build = pkg.build, !.env = pkg.env,
                            !.host = host, !.sysroot = sysroot]

\* cache.WriteInstall: the file afterwards.
WriteInstall(c, sysroot, host, pkg) ==
    LET r == Read(c)
    IN  IF r.kind = "err" THEN c
        ELSE [r.info EXCEPT !.install = pkg.install, !.env = pkg.env,
                            !.host = host, !.sysroot = sysroot]

\* An Invalidate that leaves the cache file in place.
InvalidateNothing(d) == d

\* cache.Invalidate: os.Remove of the cache file.
Invalidate(d) == [d EXCEPT !.cache = CacheAbsent]

\* A Clean that removes nothing.
CleanNothing(d) == d

\* cache.Clean: removes the source tree and the files beside it, the cache
\* file excepted.
Clean(d) == [d EXCEPT !.source = "absent", !.srcUrl = 0, !.archive = FALSE]

\* cache.findDependents: breadth-first over the direct dependents; the result
\* lists a package once per visited package that names it.
DirectDependents(c, n) == ReverseGraph(c, n)

RECURSIVE FindDependentsLoop(_, _, _, _)
FindDependentsLoop(c, queue, visited, result) ==
    IF Len(queue) = 0 THEN result
    ELSE LET current == Head(queue)
         IN  IF current \in visited
             THEN FindDependentsLoop(c, Tail(queue), visited, result)
             ELSE LET new == SelectSeq(DirectDependents(c, current),
                                       LAMBDA m : m \notin visited \cup {current})
                  IN  FindDependentsLoop(c, Tail(queue) \o new,
                                         visited \cup {current}, result \o new)

\* A findDependents that stops at the direct dependents.
findDependentsDirect(c, pkgName) == DirectDependents(c, pkgName)

findDependents(c, pkgName) == FindDependentsLoop(c, <<pkgName>>, {}, <<>>)

\* cache.InvalidateDependents: the build directory afterwards.
InvalidateDependents(dsk, c, pkgName) ==
    [n \in DOMAIN dsk |->
        IF n \in Range(findDependents(c, pkgName)) THEN Invalidate(dsk[n]) ELSE dsk[n]]

\* ------------------------------------------------------------- WorkerPool

\* Largest -j value of a run, and largest size of a pool in SpecPool.
MaxJobs == 2

\* NewWorkerPool (dependency.go:83-91). n is the argument as given.
NewWorkerPool(n) ==
    [n |-> n, maxWorkers |-> IF n <= 0 THEN 1 ELSE n, sem |-> 0, wg |-> 0]

\* A send on sem that succeeds although the channel's buffer is full.
SlotFreeOneMore(p) == p.sem <= p.maxWorkers

\* "p.sem <- struct{}{}" can proceed: the buffered channel is not full.
SlotFree(p) == p.sem < p.maxWorkers

\* A Wait that does not wait.
WaitReturnsAtOnce(p) == TRUE

\* WorkerPool.Wait can return: the WaitGroup counter is zero.
WaitReturns(p) == p.wg = 0

\* A closure's goroutine that has not been submitted.
IdleTask ==
    [pc |-> "idle", withStop |-> FALSE, entered |-> FALSE, needsRebuild |-> FALSE,
     needsReinstall |-> FALSE, ranBuild |-> FALSE, ranInstall |-> FALSE, err |-> FALSE,
     built |-> FALSE]

\* The places of a goroutine at which its closure is executing.
BodyPcs == {"run", "check", "check2", "prep", "fetch", "build", "wb", "inval",
            "install", "wi", "failed"}

\* The goroutine has ended: the closure returned, or it was abandoned unrun.
EndPcs == {"done", "abandoned"}

Executing(t) == task[t].pc \in BodyPcs

\* Submit's goroutine takes a slot and calls the task (dependency.go:98-100).
GoAcquire(t) ==
    /\ task[t].pc = "acquire"
    /\ SlotFree(pool)
    /\ pool' = [pool EXCEPT !.sem = @ + 1]
    /\ task' = [task EXCEPT ![t].pc = "run"]
    /\ UNCHANGED <<cfg, iterOrder, buildOrder, builderCfg, filterSet, disk, stopped,
                   results, main, call>>

\* SubmitWithStop's first select takes the slot (dependency.go:110-111).
GoSelectSlot(t) ==
    /\ task[t].pc = "select1"
    /\ SlotFree(pool)
    /\ pool' = [pool EXCEPT !.sem = @ + 1]
    /\ task' = [task EXCEPT ![t].pc = "select2"]
    /\ UNCHANGED <<cfg, iterOrder, buildOrder, builderCfg, filterSet, disk, stopped,
                   results, main, call>>

\* A stop case that returns without wg.Done.
GoSelectStopForgetsDone(t) ==
    /\ task[t].pc = "select1"
    /\ stopped
    /\ task' = [task EXCEPT ![t].pc = "abandoned"]
    /\ UNCHANGED <<cfg, iterOrder, buildOrder, builderCfg, filterSet, disk, stopped,
                   results, pool, main, call>>

\* SubmitWithStop's first select takes the stop case and the goroutine
\* returns (dependency.go:112-113, deferred wg.Done).
GoSelectStop(t) ==
    /\ task[t].pc = "select1"
    /\ stopped
    /\ pool' = [pool EXCEPT !.wg = @ - 1]
    /\ task' = [task EXCEPT ![t].pc = "abandoned"]
    /\ UNCHANGED <<cfg, iterOrder, buildOrder, builderCfg, filterSet, disk, stopped,
                   results, main, call>>

\* A second select that calls the task without looking at the stop channel.
RecheckIgnoresStop(t) ==
    /\ task[t].pc = "select2"
    /\ pool' = pool
    /\ task' = [task EXCEPT ![t].pc = "run"]

\* SubmitWithStop's second select (dependency.go:116-121): with the stop
\* channel closed the goroutine returns, releasing the slot; else it calls
\* the task.
Recheck(t) ==
    /\ task[t].pc = "select2"
    /\ IF stopped
       THEN /\ pool' = [pool EXCEPT !.sem = @ - 1, !.wg = @ - 1]
            /\ task' = [task EXCEPT ![t].pc = "abandoned"]
       ELSE /\ pool' = pool
            /\ task' = [task EXCEPT ![t].pc = "run"]

GoRecheck(t) ==
    /\ Recheck(t)
    /\ UNCHANGED <<cfg, iterOrder, buildOrder, builderCfg, filterSet, disk, stopped,
                   results, main, call>>

\* The task returned: the deferred functions release the slot and the
\* WaitGroup (dependency.go:97-99, 108-111).
GoReturn(t) ==
    /\ task[t].pc = "ret"
    /\ pool' = [pool EXCEPT !.sem = @ - 1, !.wg = @ - 1]
    /\ task' = [task EXCEPT ![t].pc = "done"]
    /\ UNCHANGED <<cfg, iterOrder, buildOrder, builderCfg, filterSet, disk, stopped,
                   results, main, call>>

\* ------------------------------------------------------- catalogs (inputs)

\* Every catalog over OrderNames whose packages name at most MaxDeps distinct
\* targets among the names and one undefined name, or one name twice.
TargetSeq == Append(OrderNames, Undefined)

ListOf(S) == SelectSeq(TargetSeq, LAMBDA n : n \in S)

DepLists ==
    {ListOf(S) : S \in {T \in SUBSET Range(TargetSeq) : Cardinality(T) <= MaxDeps}}
        \cup {<<n, n>> : n \in Range(OrderNames)}

ExhaustiveCatalogs ==
    {[i \in 1..Len(OrderNames) |-> Pkg(OrderNames[i], d[i])] :
        d \in [1..Len(OrderNames) -> DepLists]}

\* The catalogs of the resolver's tests (part_003:92-178) and two catalogs
\* with a cycle that covers only part of the packages.
Diamond ==
    <<Pkg("a", <<>>), Pkg("b", <<"a">>), Pkg("c", <<"a">>), Pkg("d", <<"b", "c">>)>>

ComplexGraph ==
    <<Pkg("base", <<>>), Pkg("lib1", <<"base">>), Pkg("lib2", <<"base">>),
      Pkg("app1", <<"lib1">>), Pkg("app2", <<"lib1", "lib2">>)>>

PartialCycle ==
    <<Pkg("a", <<>>), Pkg("b", <<"a", "d">>), Pkg("c", <<"b">>), Pkg("d", <<"c">>)>>

DuplicateName ==
    <<Pkg("a", <<>>), Pkg("b", <<"a">>), Pkg("b", <<>>)>>

OrderCatalogs ==
    ExhaustiveCatalogs \cup {Diamond, ComplexGraph, PartialCycle, DuplicateName}

\* ---------------------------------------------------------------- SpecOrder

\* The variables a specification does not use.
NoBuilderCfg == [FailFast |-> FALSE, DryRun |-> FALSE, AlwaysInstall |-> FALSE,
                 MaxConcurrency |-> 1, sysroot |-> 1, host |-> 1]
NoPool == NewWorkerPool(1)
NoMain == [pc |-> "none", packageFilter |-> {}, level |-> 0, idx |-> 0, filtered |-> <<>>,
           errors |-> 0, ret |-> "none", summary |-> <<>>, exit |-> -1, signals |-> 0]
NoCall == [op |-> "none"]

InitOrder ==
    /\ cfg \in OrderCatalogs
    /\ iterOrder \in PermSeqs(PkgNames(cfg))
    /\ buildOrder = NotCalled
    /\ builderCfg = NoBuilderCfg
    /\ filterSet = {}
    /\ disk = <<>>
    /\ stopped = FALSE
    /\ results = <<>>
    /\ pool = NoPool
    /\ task = <<>>
    /\ main = NoMain
    /\ call = NoCall

CallGetBuildOrder ==
    /\ buildOrder = NotCalled
    /\ buildOrder' = GetBuildOrder(cfg, iterOrder)
    /\ UNCHANGED <<cfg, iterOrder>>
    /\ UNCHANGED <<builderCfg, filterSet, disk, stopped, results, pool, task, main, call>>

NextOrder == CallGetBuildOrder

SpecOrder == InitOrder /\ [][NextOrder]_vars


\* --------------------------------------------------------- Builder (driver)

\* The catalog of the runs of Spec: a and x have no dependencies, b depends
\* on a and c on b, so the levels are [a, x], [b], [c].
SideChain ==
    <<Pkg("a", <<>>), Pkg("x", <<>>), Pkg("b", <<"a">>), Pkg("c", <<"b">>)>>

\* The same packages with a cycle b, c that leaves a and x outside, and with
\* a dependency of c that no package defines: catalogs that LoadConfig
\* refuses and that only a caller of NewBuilder can hand to Build.
CycleChain ==
    <<Pkg("a", <<>>), Pkg("x", <<>>), Pkg("b", <<"a", "c">>), Pkg("c", <<"b">>)>>

MissingChain ==
    <<Pkg("a", <<>>), Pkg("x", <<>>), Pkg("b", <<"a">>), Pkg("c", <<"b", "y">>)>>

DriverCatalogs == {SideChain, CycleChain, MissingChain}

\* The package arguments of the command line.
FilterChoices == {<<>>, <<"b">>}

\* A package's part of the build directory (cache file, source tree,
\* archive, artifacts directory) and of the sysroot (what its INSTALL recipe
\* put there) before the run.
NeverBuilt ==
    [cache |-> CacheAbsent, source |-> "absent", srcUrl |-> 0, archive |-> FALSE,
     artifacts |-> FALSE, installed |-> FALSE]

\* Built and installed by an earlier run with the package as it is now.
UpToDate ==
    [cache |-> [state |-> "ok", url |-> 1, build |-> 1, install |-> 1, env |-> <<1>>,
                host |-> 1, sysroot |-> 1],
     source |-> "complete", srcUrl |-> 1, archive |-> TRUE, artifacts |-> TRUE,
     installed |-> TRUE]

\* Built by an earlier run; the package's build recipe was edited since.
BuildChanged == [UpToDate EXCEPT !.cache.build = 2]

\* Built by an earlier run; makepkg.json was truncated or cannot be parsed.
Unparsable == [UpToDate EXCEPT !.cache = CacheCorrupt]

\* The build directories of the runs of Spec: a's recipe may have been
\* edited, the cache files of x and b may be unreadable.
DiskChoices ==
    [a : {NeverBuilt, UpToDate, BuildChanged},
     x : {NeverBuilt, UpToDate, Unparsable},
     b : {NeverBuilt, UpToDate, Unparsable},
     c : {NeverBuilt, UpToDate}]

\* History: the build directory and sysroot that the run started from.
StartOfRun(d) == [op |-> "none", disk0 |-> d]

Init ==
    /\ cfg \in DriverCatalogs
    /\ iterOrder = <<>>
    /\ buildOrder = NotCalled
    /\ builderCfg \in [FailFast : BOOLEAN, DryRun : BOOLEAN, AlwaysInstall : BOOLEAN,
                       MaxConcurrency : 1..MaxJobs, sysroot : {1}, host : {1}]
    /\ filterSet = {}
    /\ disk \in DiskChoices
    /\ stopped = FALSE
    /\ results = <<>>
    /\ pool = NoPool
    /\ task = [n \in PkgNames(cfg) |-> IdleTask]
    /\ main \in {[NoMain EXCEPT !.pc = "build", !.packageFilter = f] : f \in FilterChoices}
    /\ call = StartOfRun(disk)

\* Builder.addDependenciesToFilter (part_003:712-724).
RECURSIVE addDependenciesToFilter(_, _, _), AddDepsFrom(_, _, _, _)
AddDepsFrom(c, deps, i, fs) ==
    IF i > Len(deps) THEN fs
    ELSE IF deps[i] \in fs THEN AddDepsFrom(c, deps, i + 1, fs)
    ELSE AddDepsFrom(c, deps, i + 1, addDependenciesToFilter(c, deps[i], fs \cup {deps[i]}))

addDependenciesToFilter(c, pkgName, fs) ==
    IF pkgName \notin PkgNames(c) THEN fs
    ELSE AddDepsFrom(c, GetPackageByName(c, pkgName).depends_on, 1, fs)

RECURSIVE FilterClosureFrom(_, _, _, _)
FilterClosureFrom(c, filter, i, fs) ==
    IF i > Len(filter) THEN fs
    ELSE FilterClosureFrom(c, filter, i + 1, addDependenciesToFilter(c, filter[i], fs))

\* A filterSet of the arguments alone.
BuildFilterSetNoDeps(c, filter) == Range(filter)

\* Build's filterSet (part_003:322-332): the arguments, then their dependencies.
BuildFilterSet(c, filter) == FilterClosureFrom(c, filter, 1, Range(filter))

\* Builder.filterPackages, applied when the filter is not empty (part_003:342-345).
filterPackages(level, fs) ==
    IF fs = {} THEN level ELSE SelectSeq(level, LAMBDA n : n \in fs)

Result(name, success) == [Package |-> name, Success |-> success]

\* Builder.recordResult.
recordResult(rs, name, success) == Append(rs, Result(name, success))

\* Builder.PrintSummary: the last result of each package that has one, in
\* declaration order.
PrintSummary(c, rs) ==
    LET has(n)  == \E k \in 1..Len(rs) : rs[k].Package = n
        last(n) == rs[CHOOSE k \in 1..Len(rs) :
                        /\ rs[k].Package = n
                        /\ \A j \in 1..Len(rs) : rs[j].Package = n => j <= k]
        listed  == SelectSeq(c, LAMBDA pk : has(pk.name))
    IN  [i \in 1..Len(listed) |-> last(listed[i].name)]

\* A Build that goes on whatever GetBuildOrder returned.
BuildOrderFailedNever(bo) == FALSE

\* Build's test of GetBuildOrder's error (part_003:317-320).
BuildOrderFailed(bo) == bo.err # "none"

\* Build up to the level loop (part_003:305-334).
BuildStart ==
    /\ main.pc = "build"
    /\ \E iter \in PermSeqs(PkgNames(cfg)) :
         buildOrder' = GetBuildOrder(cfg, iter)
    /\ IF BuildOrderFailed(buildOrder')
       THEN /\ main' = [main EXCEPT !.pc = "summary", !.ret = "err"]
            /\ filterSet' = filterSet
       ELSE /\ main' = [main EXCEPT !.pc = "level", !.level = 1]
            /\ filterSet' = BuildFilterSet(cfg, main.packageFilter)
    /\ UNCHANGED <<cfg, iterOrder, builderCfg, disk, stopped, results, pool, task, call>>

\* The head of the level loop (part_003:336-351) and of buildLevel (475-477).
LevelTop ==
    /\ main.pc = "level"
    /\ IF main.level > Len(buildOrder.levels)
       THEN /\ main' = [main EXCEPT !.pc = "summary", !.ret = "ok"]
            /\ pool' = pool
       ELSE IF stopped
       THEN /\ main' = [main EXCEPT !.pc = "summary", !.ret = "err"]
            /\ pool' = pool
       ELSE LET filtered == filterPackages(buildOrder.levels[main.level], filterSet)
            IN  IF Len(filtered) = 0
                THEN /\ main' = [main EXCEPT !.level = @ + 1]
                     /\ pool' = pool
                ELSE /\ main' = [main EXCEPT !.pc = "submit", !.filtered = filtered,
                                             !.idx = 1, !.errors = 0]
                     /\ pool' = NewWorkerPool(builderCfg.MaxConcurrency)
    /\ UNCHANGED <<cfg, iterOrder, buildOrder, builderCfg, filterSet, disk, stopped,
                   results, task, call>>

\* buildLevel's loop (part_003:479-510): one SubmitWithStop per package, cut
\* short when the builder is stopped.
SubmitNext ==
    /\ main.pc = "submit"
    /\ IF main.idx > Len(main.filtered) \/ stopped
       THEN /\ main' = [main EXCEPT !.pc = "wait"]
            /\ UNCHANGED <<pool, task>>
       ELSE /\ main' = [main EXCEPT !.idx = @ + 1]
            /\ pool' = [pool EXCEPT !.wg = @ + 1]
            /\ task' = [task EXCEPT ![main.filtered[main.idx]].pc = "select1",
                                    ![main.filtered[main.idx]].withStop = TRUE]
    /\ UNCHANGED <<cfg, iterOrder, buildOrder, builderCfg, filterSet, disk, stopped,
                   results, call>>

\* A builder that never looks at --fail-fast.
FailFastIgnored(bc) == FALSE

\* b.builderCfg.FailFast, as Build and the closures of buildLevel read it
\* (part_003:352, 497, 505).
FailFast(bc) == bc.FailFast

\* A buildLevel that reports no error whatever its tasks returned.
BuildLevelReturnsNil(errors) == "nil"

\* What buildLevel returns after pool.Wait (part_003:514-517).
BuildLevelReturn(errors) == IF errors > 0 THEN "err" ELSE "nil"

\* pool.Wait returns; buildLevel returns and Build goes on (part_003:512-517,
\* 351-357).
WaitLevel ==
    /\ main.pc = "wait"
    /\ WaitReturns(pool)
    /\ IF BuildLevelReturn(main.errors) = "err" /\ FailFast(builderCfg)
       THEN main' = [main EXCEPT !.pc = "summary", !.ret = "err"]
       ELSE main' = [main EXCEPT !.pc = "level", !.level = @ + 1]
    /\ UNCHANGED <<cfg, iterOrder, buildOrder, builderCfg, filterSet, disk, stopped,
                   results, pool, task, call>>

\* main after Build returned: builder.PrintSummary() (main.go:185-189).
MainSummary ==
    /\ main.pc = "summary"
    /\ main' = [main EXCEPT !.pc = "exit", !.summary = PrintSummary(cfg, results)]
    /\ UNCHANGED <<cfg, iterOrder, buildOrder, builderCfg, filterSet, disk, stopped,
                   results, pool, task, call>>

\* The exit status with which main ends after the summary: main returns
\* (main.go:190-191).
ExitStatus(rs, ret) == 0

MainExit ==
    /\ main.pc = "exit"
    /\ main' = [main EXCEPT !.pc = "exited", !.exit = ExitStatus(results, main.ret)]
    /\ UNCHANGED <<cfg, iterOrder, buildOrder, builderCfg, filterSet, disk, stopped,
                   results, pool, task, call>>

\* ------------------------------------------- Builder (the package closures)

ThePkg(p) == GetPackageByName(cfg, p)

\* The closure of buildLevel begins (part_003:486-489): it returns at once
\* when the builder is stopped, else it calls buildPackage.
TaskStart(p) ==
    /\ task[p].pc = "run"
    /\ task[p].withStop
    /\ IF stopped
       THEN task' = [task EXCEPT ![p].pc = "ret"]
       ELSE task' = [task EXCEPT ![p].pc = "check", ![p].entered = TRUE]
    /\ UNCHANGED <<cfg, iterOrder, buildOrder, builderCfg, filterSet, disk, stopped,
                   results, pool, main, call>>

\* buildPackage: cache.NeedsRebuild (part_003:524-527). An error is returned
\* as it is.
TaskCheckRebuild(p) ==
    /\ task[p].pc = "check"
    /\ LET r == needsRebuildWithReason(disk[p], ThePkg(p), builderCfg.sysroot,
                                       builderCfg.host)
       IN  IF r.err
           THEN task' = [task EXCEPT ![p].pc = "failed"]
           ELSE task' = [task EXCEPT ![p].pc = "check2", ![p].needsRebuild = r.needs]
    /\ UNCHANGED <<cfg, iterOrder, buildOrder, builderCfg, filterSet, disk, stopped,
                   results, pool, main, call>>

\* buildPackage: AlwaysInstall or cache.NeedsReinstall, and the skip of an
\* up-to-date package (part_003:529-541).
TaskCheckReinstall(p) ==
    /\ task[p].pc = "check2"
    /\ LET r == needsReinstallWithReason(disk[p], ThePkg(p), builderCfg.sysroot,
                                         builderCfg.host)
           reinstall == IF builderCfg.AlwaysInstall THEN TRUE ELSE r.needs
       IN  IF ~builderCfg.AlwaysInstall /\ r.err
           THEN /\ task' = [task EXCEPT ![p].pc = "failed"]
                /\ results' = results
           ELSE IF ~task[p].needsRebuild /\ ~reinstall
           THEN /\ task' = [task EXCEPT ![p].pc = "ret", ![p].needsReinstall = FALSE]
                /\ results' = recordResult(results, p, TRUE)
           ELSE /\ task' = [task EXCEPT ![p].pc = "prep", ![p].needsReinstall = reinstall]
                /\ results' = results
    /\ UNCHANGED <<cfg, iterOrder, buildOrder, builderCfg, filterSet, disk, stopped,
                   pool, main, call>>

\* An artifacts step that a dry run takes too.
PrepareArtifactsAlways(d, dryRun) == [d EXCEPT !.artifacts = TRUE]

\* buildPackage: RemoveAll and MkdirAll of the package's artifacts
\* directory, unless the run is a dry run (part_003:543-555).
PrepareArtifacts(d, dryRun) == IF dryRun THEN d ELSE [d EXCEPT !.artifacts = TRUE]

\* buildPackage: the artifacts directory is emptied and made again, and a
\* changed URL cleans the old source and archive (part_003:543-576).
TaskPrep(p) ==
    /\ task[p].pc = "prep"
    /\ LET d1 == PrepareArtifacts(disk[p], builderCfg.DryRun)
           r  == Read(d1.cache)
           d2 == IF /\ task[p].needsRebuild
                    /\ r.kind = "ok"
                    /\ r.info.url # ThePkg(p).url
                    /\ ~builderCfg.DryRun
                 THEN Clean(d1) ELSE d1
       IN  disk' = [disk EXCEPT ![p] = d2]
    /\ task' = [task EXCEPT ![p].pc = IF task[p].needsRebuild THEN "fetch" ELSE "install"]
    /\ UNCHANGED <<cfg, iterOrder, buildOrder, builderCfg, filterSet, stopped, results,
                   pool, main, call>>

\* The url that stands for one ending in ".git"; the other values of a url
\* stand for archive urls.
GitUrl == 3

\* isGitURL (environment.go:283-285).
isGitURL(url) == url = GitUrl

\* What Download and Extract can come to (environment.go:213-251) for a
\* package without source directory. With the file named after the url's
\* last segment in place Download does nothing. Else a ".git" url is cloned
\* into the source directory, made beforehand, and Download returns what the
\* clone returned; Extract then opens the file named after the url's last
\* segment, which no step has made (environment.go:240, 337-340). An archive
\* url is downloaded, and the HTTP request carries main's context
\* (environment.go:296-301).
FetchOutcomes(d, url, cancelled) ==
    IF d.archive THEN {"ok", "extract failed"}
    ELSE IF isGitURL(url) THEN {"clone failed", "cloned, extract failed"}
    ELSE IF cancelled THEN {"download failed"}
    ELSE {"ok", "download failed", "extract failed"}

\* buildPackage: Download and Extract when there is no source directory
\* (part_003:578-592; environment.go:213-251). Download is skipped when the
\* archive is there; Extract makes the source directory before it unpacks.
TaskFetch(p) ==
    /\ task[p].pc = "fetch"
    /\ IF disk[p].source # "absent" \/ builderCfg.DryRun
       THEN /\ task' = [task EXCEPT ![p].pc = "build"]
            /\ UNCHANGED <<disk, results>>
       ELSE \E outcome \in FetchOutcomes(disk[p], ThePkg(p).url, main.signals > 0) :
              /\ disk' = [disk EXCEPT ![p] =
                    IF outcome = "download failed" THEN @
                    ELSE IF outcome = "clone failed"
                    THEN [@ EXCEPT !.source = "partial", !.srcUrl = ThePkg(p).url]
                    ELSE IF outcome = "cloned, extract failed"
                    THEN [@ EXCEPT !.source = "complete", !.srcUrl = ThePkg(p).url]
                    ELSE IF outcome = "extract failed"
                    THEN [@ EXCEPT !.archive = TRUE, !.source = "partial",
                                   !.srcUrl = ThePkg(p).url]
                    ELSE [@ EXCEPT !.archive = TRUE, !.source = "complete",
                                   !.srcUrl = ThePkg(p).url]]
              /\ IF outcome = "ok"
                 THEN /\ task' = [task EXCEPT ![p].pc = "build"]
                      /\ results' = results
                 ELSE /\ task' = [task EXCEPT ![p].pc = "failed"]
                      /\ results' = recordResult(results, p, FALSE)
    /\ UNCHANGED <<cfg, iterOrder, buildOrder, builderCfg, filterSet, stopped, pool,
                   main, call>>

\* A buildPackage that goes on to INSTALL whatever the BUILD script returned.
TaskBuildIgnoresError(p) ==
    /\ task[p].pc = "build"
    /\ task' = [task EXCEPT ![p].pc = "install", ![p].ranBuild = ~builderCfg.DryRun]
    /\ UNCHANGED <<cfg, iterOrder, buildOrder, builderCfg, filterSet, disk, stopped,
                   results, pool, main, call>>

\* buildPackage: the BUILD script (part_003:594-603, 611-620).
TaskBuild(p) ==
    /\ task[p].pc = "build"
    /\ IF builderCfg.DryRun
       THEN /\ task' = [task EXCEPT ![p].pc = "install"]
            /\ results' = results
       ELSE \E ok \in BOOLEAN :
              IF ok
              THEN /\ task' = [task EXCEPT ![p].pc = "wb", ![p].ranBuild = TRUE]
                   /\ results' = results
              ELSE /\ task' = [task EXCEPT ![p].pc = "failed", ![p].ranBuild = TRUE]
                   /\ results' = recordResult(results, p, FALSE)
    /\ UNCHANGED <<cfg, iterOrder, buildOrder, builderCfg, filterSet, disk, stopped,
                   pool, main, call>>

\* buildPackage: cache.WriteBuild (part_003:604-606).
TaskWriteBuild(p) ==
    /\ task[p].pc = "wb"
    /\ disk' = [disk EXCEPT ![p].cache =
                    WriteBuild(@, builderCfg.sysroot, builderCfg.host, ThePkg(p))]
    /\ task' = [task EXCEPT ![p].pc = "inval"]
    /\ UNCHANGED <<cfg, iterOrder, buildOrder, builderCfg, filterSet, stopped, results,
                   pool, main, call>>

\* buildPackage: cache.InvalidateDependents (part_003:608-610).
TaskInvalidate(p) ==
    /\ task[p].pc = "inval"
    /\ disk' = InvalidateDependents(disk, cfg, p)
    /\ task' = [task EXCEPT ![p].pc = "install", ![p].built = TRUE]
    /\ UNCHANGED <<cfg, iterOrder, buildOrder, builderCfg, filterSet, stopped, results,
                   pool, main, call>>

\* A buildPackage that calls WriteInstall after a failed INSTALL script too.
TaskInstallWritesOnFailure(p) ==
    /\ task[p].pc = "install"
    /\ \E ok \in BOOLEAN :
          /\ task' = [task EXCEPT ![p].pc = "wi", ![p].ranInstall = TRUE, ![p].err = ~ok]
          /\ results' = IF ok THEN results ELSE recordResult(results, p, FALSE)
          /\ disk' = IF ok THEN [disk EXCEPT ![p].installed = TRUE] ELSE disk
    /\ UNCHANGED <<cfg, iterOrder, buildOrder, builderCfg, filterSet, stopped, pool,
                   main, call>>

\* buildPackage: the INSTALL script; a dry run ends here with a success
\* (part_003:626-651).
TaskInstall(p) ==
    /\ task[p].pc = "install"
    /\ IF builderCfg.DryRun
       THEN /\ task' = [task EXCEPT ![p].pc = "ret"]
            /\ results' = recordResult(results, p, TRUE)
            /\ disk' = disk
       ELSE \E ok \in BOOLEAN :
              IF ok
              THEN /\ task' = [task EXCEPT ![p].pc = "wi", ![p].ranInstall = TRUE]
                   /\ results' = results
                   /\ disk' = [disk EXCEPT ![p].installed = TRUE]
              ELSE /\ task' = [task EXCEPT ![p].pc = "failed", ![p].ranInstall = TRUE]
                   /\ results' = recordResult(results, p, FALSE)
                   /\ disk' = disk
    /\ UNCHANGED <<cfg, iterOrder, buildOrder, builderCfg, filterSet, stopped, pool,
                   main, call>>

\* buildPackage: cache.WriteInstall and the success result (part_003:640-651).
TaskWriteInstall(p) ==
    /\ task[p].pc = "wi"
    /\ disk' = [disk EXCEPT ![p].cache =
                    WriteInstall(@, builderCfg.sysroot, builderCfg.host, ThePkg(p))]
    /\ results' = recordResult(results, p, TRUE)
    /\ task' = [task EXCEPT ![p].pc = "ret"]
    /\ UNCHANGED <<cfg, iterOrder, buildOrder, builderCfg, filterSet, stopped, pool,
                   main, call>>

\* buildPackage returned an error: the closure appends it to the level's
\* errors and, with fail-fast, stops the builder (part_003:502-508, 696-704).
TaskFailed(p) ==
    /\ task[p].pc = "failed"
    /\ main' = [main EXCEPT !.errors = @ + 1]
    /\ stopped' = IF FailFast(builderCfg) THEN TRUE ELSE stopped
    /\ task' = [task EXCEPT ![p].pc = "ret", ![p].err = TRUE]
    /\ UNCHANGED <<cfg, iterOrder, buildOrder, builderCfg, filterSet, disk, results,
                   pool, call>>

Next ==
    \/ BuildStart
    \/ LevelTop
    \/ SubmitNext
    \/ WaitLevel
    \/ MainSummary
    \/ MainExit
    \/ \E p \in PkgNames(cfg) : GoSelectSlot(p)
    \/ \E p \in PkgNames(cfg) : GoSelectStop(p)
    \/ \E p \in PkgNames(cfg) : GoRecheck(p)
    \/ \E p \in PkgNames(cfg) : TaskStart(p)
    \/ \E p \in PkgNames(cfg) : TaskCheckRebuild(p)
    \/ \E p \in PkgNames(cfg) : TaskCheckReinstall(p)
    \/ \E p \in PkgNames(cfg) : TaskPrep(p)
    \/ \E p \in PkgNames(cfg) : TaskFetch(p)
    \/ \E p \in PkgNames(cfg) : TaskBuild(p)
    \/ \E p \in PkgNames(cfg) : TaskWriteBuild(p)
    \/ \E p \in PkgNames(cfg) : TaskInvalidate(p)
    \/ \E p \in PkgNames(cfg) : TaskInstall(p)
    \/ \E p \in PkgNames(cfg) : TaskWriteInstall(p)
    \/ \E p \in PkgNames(cfg) : TaskFailed(p)
    \/ \E p \in PkgNames(cfg) : GoReturn(p)

Spec == Init /\ [][Next]_vars

\* --------------------------------------------------------------- SpecSignal

\* The runs of SpecSignal: an unfiltered real run over the catalog of Spec
\* in which SIGINT or SIGTERM may arrive.
InitSignal ==
    /\ cfg \in DriverCatalogs
    /\ iterOrder = <<>>
    /\ buildOrder = NotCalled
    /\ builderCfg \in [FailFast : BOOLEAN, DryRun : {FALSE}, AlwaysInstall : {FALSE},
                       MaxConcurrency : 1..MaxJobs, sysroot : {1}, host : {1}]
    /\ filterSet = {}
    /\ disk \in [a : {NeverBuilt, BuildChanged}, x : {UpToDate, Unparsable},
                 b : {NeverBuilt, UpToDate}, c : {UpToDate}]
    /\ stopped = FALSE
    /\ results = <<>>
    /\ pool = NoPool
    /\ task = [n \in PkgNames(cfg) |-> IdleTask]
    /\ main = [NoMain EXCEPT !.pc = "build", !.packageFilter = <<>>]
    /\ call = StartOfRun(disk)

\* The first SIGINT or SIGTERM: the handler goroutine cancels the context
\* that main hands to Build (main.go:199-201).
SignalCancel ==
    /\ main.pc \notin {"none", "exited"}
    /\ main.signals = 0
    /\ main' = [main EXCEPT !.signals = 1]
    /\ UNCHANGED <<cfg, iterOrder, buildOrder, builderCfg, filterSet, disk, stopped,
                   results, pool, task, call>>

\* The second signal: os.Exit(1) (main.go:202-203). Every goroutine ends
\* where it is.
SignalExit ==
    /\ main.pc \notin {"none", "exited"}
    /\ main.signals = 1
    /\ main' = [main EXCEPT !.signals = 2, !.pc = "exited", !.exit = 1]
    /\ task' = [p \in DOMAIN task |->
                  IF task[p].pc \in {"idle"} \cup EndPcs THEN task[p]
                  ELSE [task[p] EXCEPT !.pc = "killed"]]
    /\ UNCHANGED <<cfg, iterOrder, buildOrder, builderCfg, filterSet, disk, stopped,
                   results, pool, call>>

NextSignal ==
    \/ Next
    \/ SignalCancel
    \/ SignalExit

SpecSignal == InitSignal /\ [][NextSignal]_vars

\* ----------------------------------------------------------- SpecAlwaysMake

\* The runs of SpecAlwaysMake: `makepkg -B [packages]`, a real run over the
\* valid catalog of Spec.
InitAlwaysMake ==
    /\ cfg = SideChain
    /\ iterOrder = <<>>
    /\ buildOrder = NotCalled
    /\ builderCfg \in [FailFast : BOOLEAN, DryRun : {FALSE}, AlwaysInstall : {FALSE},
                       MaxConcurrency : 1..MaxJobs, sysroot : {1}, host : {1}]
    /\ filterSet = {}
    /\ disk \in [a : {NeverBuilt, UpToDate}, x : {UpToDate, Unparsable},
                 b : {UpToDate}, c : {UpToDate, NeverBuilt}]
    /\ stopped = FALSE
    /\ results = <<>>
    /\ pool = NoPool
    /\ task = [n \in PkgNames(cfg) |-> IdleTask]
    /\ main \in {[NoMain EXCEPT !.pc = "clean", !.packageFilter = f] : f \in FilterChoices}
    /\ call = StartOfRun(disk)

\* Clean's filterSet (part_003:368-373, 377-379): the package arguments
\* alone, every package when there is none.
CleanWanted(filter, name) == filter = <<>> \/ name \in Range(filter)

\* Builder.Clean up to its loop (part_003:364-375).
CleanStart ==
    /\ main.pc = "clean"
    /\ main' = [main EXCEPT !.pc = "cleansubmit", !.idx = 1]
    /\ pool' = NewWorkerPool(builderCfg.MaxConcurrency)
    /\ UNCHANGED <<cfg, iterOrder, buildOrder, builderCfg, filterSet, disk, stopped,
                   results, task, call>>

\* Builder.Clean's loop over the packages in declaration order: one
\* pool.Submit per wanted package (part_003:376-388).
CleanSubmit ==
    /\ main.pc = "cleansubmit"
    /\ IF main.idx > Len(cfg)
       THEN /\ main' = [main EXCEPT !.pc = "cleanwait"]
            /\ UNCHANGED <<pool, task>>
       ELSE IF CleanWanted(main.packageFilter, cfg[main.idx].name)
       THEN /\ main' = [main EXCEPT !.idx = @ + 1]
            /\ pool' = [pool EXCEPT !.wg = @ + 1]
            /\ task' = [task EXCEPT ![cfg[main.idx].name].pc = "acquire"]
       ELSE /\ main' = [main EXCEPT !.idx = @ + 1]
            /\ UNCHANGED <<pool, task>>
    /\ UNCHANGED <<cfg, iterOrder, buildOrder, builderCfg, filterSet, disk, stopped,
                   results, call>>

\* Builder.cleanPackage (part_003:433-472): nothing without a source
\* directory; else the clean recipe or `make clean` succeeds and the cache
\* file is removed, or both fail and the source directory is removed with it.
cleanPackage(d, outcome) ==
    IF d.source = "absent" THEN d
    ELSE IF outcome = "cleaned" THEN Invalidate(d)
    ELSE Invalidate([d EXCEPT !.source = "absent", !.srcUrl = 0])

\* The closure that Clean submits (part_003:382-386).
CleanPackage(p) ==
    /\ task[p].pc = "run"
    /\ ~task[p].withStop
    /\ \E outcome \in {"cleaned", "removed"} :
          disk' = [disk EXCEPT ![p] = cleanPackage(@, outcome)]
    /\ task' = [task EXCEPT ![p].pc = "ret"]
    /\ UNCHANGED <<cfg, iterOrder, buildOrder, builderCfg, filterSet, stopped, results,
                   pool, main, call>>

\* Clean's pool.Wait returns and main calls Build (part_003:390-391,
\* main.go:172-175). The closures of Build are new goroutines.
CleanWait ==
    /\ main.pc = "cleanwait"
    /\ WaitReturns(pool)
    /\ main' = [main EXCEPT !.pc = "build"]
    /\ task' = [n \in DOMAIN task |-> IdleTask]
    /\ UNCHANGED <<cfg, iterOrder, buildOrder, builderCfg, filterSet, disk, stopped,
                   results, pool, call>>

NextAlwaysMake ==
    \/ CleanStart
    \/ CleanSubmit
    \/ \E p \in PkgNames(cfg) : GoAcquire(p)
    \/ \E p \in PkgNames(cfg) : CleanPackage(p)
    \/ CleanWait
    \/ Next

SpecAlwaysMake == InitAlwaysMake /\ [][NextAlwaysMake]_vars

\* --------------------------------------------------------------- SpecFilter

\* The package arguments of SpecFilter (main.go:42): names of the catalog
\* (main.go:130-135), none, one or two, with and without dependencies.
FilterArgs == {<<>>, <<"x">>, <<"b">>, <<"c">>, <<"a", "b">>, <<"c", "x">>}

\* The runs of SpecFilter: real runs of Build over the valid catalog of Spec
\* with every package argument list of FilterArgs.
InitFilter ==
    /\ cfg = SideChain
    /\ iterOrder = <<>>
    /\ buildOrder = NotCalled
    /\ builderCfg \in [FailFast : BOOLEAN, DryRun : {FALSE}, AlwaysInstall : BOOLEAN,
                       MaxConcurrency : 1..MaxJobs, sysroot : {1}, host : {1}]
    /\ filterSet = {}
    /\ disk \in [a : {NeverBuilt, UpToDate}, x : {UpToDate},
                 b : {UpToDate}, c : {UpToDate}]
    /\ stopped = FALSE
    /\ results = <<>>
    /\ pool = NoPool
    /\ task = [n \in PkgNames(cfg) |-> IdleTask]
    /\ main \in {[NoMain EXCEPT !.pc = "build", !.packageFilter = f] : f \in FilterArgs}
    /\ call = StartOfRun(disk)

SpecFilter == InitFilter /\ [][Next]_vars

\* ------------------------------------------------------------------ SpecGit

\* A package fetched with git, an archive package beside it and one that
\* depends on it.
GitChain ==
    <<[Pkg("a", <<>>) EXCEPT !.url = GitUrl], Pkg("x", <<>>), Pkg("b", <<"a">>)>>

\* A git package after an earlier run that cloned and built it.
GitBuilt ==
    [UpToDate EXCEPT !.cache.url = GitUrl, !.srcUrl = GitUrl, !.archive = FALSE]

\* The runs of SpecGit: real runs of Build over GitChain.
InitGit ==
    /\ cfg = GitChain
    /\ iterOrder = <<>>
    /\ buildOrder = NotCalled
    /\ builderCfg \in [FailFast : BOOLEAN, DryRun : {FALSE}, AlwaysInstall : BOOLEAN,
                       MaxConcurrency : 1..MaxJobs, sysroot : {1}, host : {1}]
    /\ filterSet = {}
    /\ disk \in [a : {NeverBuilt, GitBuilt}, x : {NeverBuilt}, b : {NeverBuilt, UpToDate}]
    /\ stopped = FALSE
    /\ results = <<>>
    /\ pool = NoPool
    /\ task = [n \in PkgNames(cfg) |-> IdleTask]
    /\ main \in {[NoMain EXCEPT !.pc = "build", !.packageFilter = f] : f \in {<<>>, <<"a">>}}
    /\ call = StartOfRun(disk)

SpecGit == InitGit /\ [][Next]_vars

\* ------------------------------------------------------------- SpecDownload

\* maxRetries (environment.go:192).
maxRetries == 3

\* 2^n.
RECURSIVE Pow2(_)
Pow2(n) == IF n = 0 THEN 1 ELSE 2 * Pow2(n - 1)

\* The wait before attempt number `attempt` (> 1), in units of retryDelay
\* (one second): retryDelay * time.Duration(1 << uint(attempt-2))
\* (environment.go:262).
RetryDelay(attempt) == Pow2(attempt - 2)

\* How attemptDownload can end (environment.go:296-328): nil, an error of
\* the request, a status other than 200, or an error while the body is
\* copied. A request with a cancelled context fails.
AttemptOutcomes(cancelled) ==
    IF cancelled THEN {"request"} ELSE {"nil", "request", "status", "copy"}

\* One call downloadFile(ctx, path, url) during Build for the archive of
\* package a, the archive being there or not; a signal may cancel ctx at any
\* time.
InitDownload ==
    /\ cfg = <<Pkg("a", <<>>)>>
    /\ iterOrder = <<>>
    /\ buildOrder = NotCalled
    /\ builderCfg = NoBuilderCfg
    /\ filterSet = {}
    /\ disk \in [{"a"} -> {NeverBuilt, [NeverBuilt EXCEPT !.archive = TRUE]}]
    /\ stopped = FALSE
    /\ results = <<>>
    /\ pool = NoPool
    /\ task = <<>>
    /\ main = [NoMain EXCEPT !.pc = "build"]
    /\ call = NoCall

\* downloadFile up to its loop (environment.go:253-259).
DownloadStart ==
    /\ call.op = "none"
    /\ call' = IF disk["a"].archive
               THEN [op |-> "downloadFile", pc |-> "returned", attempt |-> 0,
                     delays |-> <<>>, errs |-> <<>>, ret |-> "nil"]
               ELSE [op |-> "downloadFile", pc |-> "loop", attempt |-> 1,
                     delays |-> <<>>, errs |-> <<>>, ret |-> "none"]
    /\ UNCHANGED <<cfg, iterOrder, buildOrder, builderCfg, filterSet, disk, stopped,
                   results, pool, task, main>>

\* The head of the loop and the sleep before a retry (environment.go:260-265),
\* and the return after the loop (275).
DownloadLoop ==
    /\ call.op = "downloadFile" /\ call.pc = "loop"
    /\ call' = IF call.attempt > maxRetries
               THEN [call EXCEPT !.pc = "returned", !.ret = "failed"]
               ELSE IF call.attempt > 1
               THEN [call EXCEPT !.pc = "attempt",
                                 !.delays = Append(@, RetryDelay(call.attempt))]
               ELSE [call EXCEPT !.pc = "attempt"]
    /\ UNCHANGED <<cfg, iterOrder, buildOrder, builderCfg, filterSet, disk, stopped,
                   results, pool, task, main>>

\* One attemptDownload and what the loop does with its error
\* (environment.go:267-272).
DownloadAttempt ==
    /\ call.op = "downloadFile" /\ call.pc = "attempt"
    /\ \E outcome \in AttemptOutcomes(main.signals > 0) :
          IF outcome = "nil"
          THEN /\ call' = [call EXCEPT !.pc = "returned", !.ret = "nil"]
               /\ disk' = [disk EXCEPT !["a"].archive = TRUE]
          ELSE /\ call' = [call EXCEPT !.pc = "loop", !.attempt = @ + 1,
                                       !.errs = Append(@, outcome)]
               /\ disk' = disk
    /\ UNCHANGED <<cfg, iterOrder, buildOrder, builderCfg, filterSet, stopped,
                   results, pool, task, main>>

NextDownload ==
    \/ DownloadStart
    \/ DownloadLoop
    \/ DownloadAttempt
    \/ SignalCancel

SpecDownload == InitDownload /\ [][NextDownload]_vars

\* ------------------------------------------------------------------ SpecTar

\* Largest number of entries of an archive in SpecTar.
MaxEntries == 3

\* The entries of the archives of SpecTar. A name is header.Name split at
\* "/" (strings.Split, so that "foo/" is <<"foo", "">>).
TarEntries ==
    {[name |-> <<"pax_global_header">>, type |-> "pax"]}
    \cup [name : {<<"foo", "">>, <<"foo", "bin", "">>, <<"foo", "foo", "">>}, type : {"dir"}]
    \cup [name : {<<"foo", "bin", "x">>, <<"foo", "x">>, <<"foo", "foo", "x">>,
                  <<"bin", "x">>, <<"x">>}, type : {"file"}]

RECURSIVE SeqsUpTo(_, _)
SeqsUpTo(S, n) ==
    IF n = 0 THEN {<<>>}
    ELSE LET shorter == SeqsUpTo(S, n - 1)
         IN  shorter \cup {Append(q, e) : q \in shorter, e \in S}

\* A stripping that leaves every name as it is.
StripTopLevelNothing(name, topLevelDir) == name

\* The name that extractArchive goes on with (environment.go:399-402):
\* strings.TrimPrefix(name, topLevelDir+"/") when the name has that prefix.
StripTopLevel(name, topLevelDir) ==
    IF topLevelDir # "" /\ Len(name) >= 2 /\ name[1] = topLevelDir
    THEN Tail(name) ELSE name

\* The entry is passed over (environment.go:403-411): it is the top-level
\* directory itself, or nothing is left of its name.
SkipEntry(name, topLevelDir) ==
    \/ /\ StripTopLevel(name, topLevelDir) = name
       /\ name = <<topLevelDir>>
    \/ StripTopLevel(name, topLevelDir) = <<"">>

\* filepath.Join(targetDir, name) relative to targetDir: empty segments go.
JoinTarget(name) == SelectSeq(name, LAMBDA seg : seg # "")

\* What os.MkdirAll of a directory, or of a file's parent followed by the
\* creation of the file, makes exist (environment.go:415-434).
CreatedBy(target) == {SubSeq(target, 1, k) : k \in 1..Len(target)}

InitTar ==
    /\ cfg = <<>>
    /\ iterOrder = <<>>
    /\ buildOrder = NotCalled
    /\ builderCfg = NoBuilderCfg
    /\ filterSet = {}
    /\ disk = <<>>
    /\ stopped = FALSE
    /\ results = <<>>
    /\ pool = NoPool
    /\ task = <<>>
    /\ main = NoMain
    /\ call \in {[op |-> "extractArchive", pc |-> "loop", archive |-> a, i |-> 1,
                  topLevelDir |-> "", firstEntry |-> TRUE, created |-> {}] :
                    a \in SeqsUpTo(TarEntries, MaxEntries)}

\* One turn of extractArchive's loop (environment.go:375-438), and its
\* return at the end of the archive.
ExtractEntry ==
    /\ call.op = "extractArchive" /\ call.pc = "loop"
    /\ IF call.i > Len(call.archive)
       THEN call' = [call EXCEPT !.pc = "returned"]
       ELSE LET header == call.archive[call.i]
                top    == IF call.firstEntry THEN header.name[1] ELSE call.topLevelDir
            IN  IF header.type = "pax"
                THEN call' = [call EXCEPT !.i = @ + 1]
                ELSE IF SkipEntry(header.name, top)
                THEN call' = [call EXCEPT !.i = @ + 1, !.topLevelDir = top,
                                          !.firstEntry = FALSE]
                ELSE call' = [call EXCEPT !.i = @ + 1, !.topLevelDir = top,
                                          !.firstEntry = FALSE,
                                          !.created = @ \cup CreatedBy(
                                              JoinTarget(StripTopLevel(header.name, top)))]
    /\ UNCHANGED <<cfg, iterOrder, buildOrder, builderCfg, filterSet, disk, stopped,
                   results, pool, task, main>>

NextTar == ExtractEntry

SpecTar == InitTar /\ [][NextTar]_vars

\* ---------------------------------------------------------------- SpecSubst

\* Largest number of pieces of which a string of SpecSubst is made.
MaxParts == 3

\* A string is the sequence of its characters. The pieces of the strings
\* of SpecSubst:
Pieces ==
    {<<"$">>, <<"$", "{">>, <<"}">>, <<"A">>, <<"{", "B", "}">>,
     <<"$", "{", "A", "}">>, <<"$", "{", "B", "}">>}

RECURSIVE StringsOf(_)
StringsOf(n) ==
    IF n = 0 THEN {<<>>}
    ELSE LET shorter == StringsOf(n - 1)
         IN  shorter \cup {q \o e : q \in shorter, e \in Pieces}

\* The values of the variables of SpecSubst: the empty string, plain text,
\* text with a closing brace, a reference to B and its half.
SubstValues == {<<>>, <<"a">>, <<"b", "}">>, <<"$", "{", "B", "}">>, <<"{", "B", "}">>}

\* The environments: A and B, each defined or not.
SubstEnvs ==
    UNION {[D -> SubstValues] : D \in SUBSET {<<"A">>, <<"B">>}}

\* The end of the match of reSubst = `\$\{([^}]+)}` (main.go:221) that
\* begins at s[i], 0 when none begins there.
MatchEnd(s, i) ==
    IF /\ i + 3 <= Len(s)
       /\ s[i] = "$" /\ s[i + 1] = "{" /\ s[i + 2] # "}"
       /\ \E j \in (i + 3)..Len(s) : s[j] = "}"
    THEN CHOOSE j \in (i + 3)..Len(s) :
            s[j] = "}" /\ \A k \in (i + 3)..(j - 1) : s[k] # "}"
    ELSE 0

\* The function that Subst hands to ReplaceAllStringFunc (main.go:272-278):
\* the value of the variable match[2 : len(match)-1], the match on a miss.
Replacement(env, match) ==
    LET varName == SubSeq(match, 3, Len(match) - 1)
    IN  IF varName \in DOMAIN env THEN env[varName] ELSE match

\* regexp.ReplaceAllStringFunc from s[i] on: the matches, leftmost first and
\* not overlapping, are replaced; replacements are not looked at again.
RECURSIVE ReplaceAllStringFunc(_, _, _)
ReplaceAllStringFunc(env, s, i) ==
    IF i > Len(s) THEN <<>>
    ELSE IF MatchEnd(s, i) = 0 THEN <<s[i]>> \o ReplaceAllStringFunc(env, s, i + 1)
    ELSE Replacement(env, SubSeq(s, i, MatchEnd(s, i)))
            \o ReplaceAllStringFunc(env, s, MatchEnd(s, i) + 1)

\* A replacement of the first match only.
RECURSIVE ReplaceFirst(_, _, _)
ReplaceFirst(env, s, i) ==
    IF i > Len(s) THEN <<>>
    ELSE IF MatchEnd(s, i) = 0 THEN <<s[i]>> \o ReplaceFirst(env, s, i + 1)
    ELSE Replacement(env, SubSeq(s, i, MatchEnd(s, i)))
            \o SubSeq(s, MatchEnd(s, i) + 1, Len(s))

SubstFirstOnly(env, s) == ReplaceFirst(env, s, 1)

\* Manager.Subst (main.go:271-279); mergedEnv.Subst and EnvSubst.Subst do
\* the same with their own lookup.
Subst(env, s) == ReplaceAllStringFunc(env, s, 1)

InitSubst ==
    /\ cfg = <<>>
    /\ iterOrder = <<>>
    /\ buildOrder = NotCalled
    /\ builderCfg = NoBuilderCfg
    /\ filterSet = {}
    /\ disk = <<>>
    /\ stopped = FALSE
    /\ results = <<>>
    /\ pool = NoPool
    /\ task = <<>>
    /\ main = NoMain
    /\ call \in {[op |-> "Subst", env |-> e, s |-> str, returned |-> <<>>] :
                    e \in SubstEnvs, str \in StringsOf(MaxParts)}

\* Subst is called on s the first time, on what it returned the second time.
CallSubst ==
    /\ call.op = "Subst"
    /\ Len(call.returned) < 2
    /\ call' = [call EXCEPT !.returned =
                    Append(@, Subst(call.env, IF @ = <<>> THEN call.s ELSE @[Len(@)]))]
    /\ UNCHANGED <<cfg, iterOrder, buildOrder, builderCfg, filterSet, disk, stopped,
                   results, pool, task, main>>

NextSubst == CallSubst

SpecSubst == InitSubst /\ [][NextSubst]_vars

\* ----------------------------------------------------------------- SpecRuns

\* Largest number of successive runs of makepkg in SpecRuns.
MaxRuns == 2

\* How the most recent INSTALL recipe of a package ended before the run:
\* "ok" for a package that an earlier run installed, "none" for one that was
\* never built.
InstalledBefore(d) == IF d.installed THEN "ok" ELSE "none"

\* How the most recent INSTALL recipe of p ended, the run that ends included.
LastInstall(before, t) ==
    IF ~t.ranInstall THEN before ELSE IF t.err THEN "failed" ELSE "ok"

\* The runs of SpecRuns: `makepkg` again and again over the same catalog and
\* build directory, without package arguments; a's build recipe was edited
\* before the first run, or nothing was.
InitRuns ==
    /\ cfg = SideChain
    /\ iterOrder = <<>>
    /\ buildOrder = NotCalled
    /\ builderCfg \in [FailFast : BOOLEAN, DryRun : {FALSE}, AlwaysInstall : {FALSE},
                       MaxConcurrency : 1..MaxJobs, sysroot : {1}, host : {1}]
    /\ filterSet = {}
    /\ disk \in [a : {BuildChanged, UpToDate}, x : {UpToDate}, b : {UpToDate},
                 c : {UpToDate}]
    /\ stopped = FALSE
    /\ results = <<>>
    /\ pool = NoPool
    /\ task = [n \in PkgNames(cfg) |-> IdleTask]
    /\ main = [NoMain EXCEPT !.pc = "build", !.packageFilter = <<>>]
    /\ call = [op |-> "none", disk0 |-> disk, run |-> 1,
               lastInstall |-> [n \in PkgNames(cfg) |-> InstalledBefore(disk[n])],
               failed |-> FALSE]

\* A fetch or a recipe of the run failed: buildPackage recorded a failure
\* result (part_003:582, 586, 600, 632).
AnyFailure(rs) == \E k \in 1..Len(rs) : ~rs[k].Success

\* The process has exited and makepkg is started again with the same
\* arguments: main builds a new Builder (main.go:153-175, part_003:246-303)
\* over the build directory as the last run left it.
NextRun ==
    /\ main.pc = "exited"
    /\ call.run < MaxRuns
    /\ call' = [call EXCEPT !.run = @ + 1, !.disk0 = disk,
                            !.lastInstall = [n \in PkgNames(cfg) |->
                                                LastInstall(@[n], task[n])],
                            !.failed = AnyFailure(results)]
    /\ buildOrder' = NotCalled
    /\ filterSet' = {}
    /\ stopped' = FALSE
    /\ results' = <<>>
    /\ pool' = NoPool
    /\ task' = [n \in PkgNames(cfg) |-> IdleTask]
    /\ main' = [NoMain EXCEPT !.pc = "build", !.packageFilter = main.packageFilter]
    /\ UNCHANGED <<cfg, iterOrder, builderCfg, disk>>

NextRuns ==
    \/ NextRun
    \/ Next

SpecRuns == InitRuns /\ [][NextRuns]_vars

\* ---------------------------------------------------------------- SpecEdits

\* The packages whose url is edited in SpecEdits.
Editable == {"a", "b"}

\* Between two runs the user gives a package of the catalog another url.
EditUrl ==
    /\ main.pc = "exited"
    /\ call.run < MaxRuns
    /\ \E i \in 1..Len(cfg) :
          /\ cfg[i].name \in Editable
          /\ cfg[i].url = 1
          /\ cfg' = [cfg EXCEPT ![i].url = 2]
    /\ UNCHANGED <<iterOrder, buildOrder, builderCfg, filterSet, disk, stopped, results,
                   pool, task, main, call>>

NextEdits ==
    \/ EditUrl
    \/ NextRuns

\* The runs of SpecRuns with url changes between them.
SpecEdits == InitRuns /\ [][NextEdits]_vars

\* -------------------------------------------------------------- SpecRefetch

\* The runs of SpecRefetch: `makepkg` again and again over an empty build
\* directory and the catalog of SpecGit, whose a is cloned and whose x and b
\* are downloaded and extracted.
InitRefetch ==
    /\ cfg = GitChain
    /\ iterOrder = <<>>
    /\ buildOrder = NotCalled
    /\ builderCfg \in [FailFast : BOOLEAN, DryRun : {FALSE}, AlwaysInstall : {FALSE},
                       MaxConcurrency : 1..MaxJobs, sysroot : {1}, host : {1}]
    /\ filterSet = {}
    /\ disk = [n \in PkgNames(cfg) |-> NeverBuilt]
    /\ stopped = FALSE
    /\ results = <<>>
    /\ pool = NoPool
    /\ task = [n \in PkgNames(cfg) |-> IdleTask]
    /\ main = [NoMain EXCEPT !.pc = "build", !.packageFilter = <<>>]
    /\ call = [op |-> "none", disk0 |-> disk, run |-> 1,
               lastInstall |-> [n \in PkgNames(cfg) |-> InstalledBefore(disk[n])],
               failed |-> FALSE]

SpecRefetch == InitRefetch /\ [][NextRuns]_vars

\* ------------------------------------------------------------ SpecReinstall

\* Built and installed by an earlier run; the package's install recipe was
\* edited since.
InstallChanged == [UpToDate EXCEPT !.cache.install = 2]

\* The runs of SpecReinstall: real and dry runs of Build without
\* --always-install over the valid catalog of Spec, where the install
\* recipes of a and b may have been edited and x may be new.
InitReinstall ==
    /\ cfg = SideChain
    /\ iterOrder = <<>>
    /\ buildOrder = NotCalled
    /\ builderCfg \in [FailFast : BOOLEAN, DryRun : BOOLEAN, AlwaysInstall : {FALSE},
                       MaxConcurrency : 1..MaxJobs, sysroot : {1}, host : {1}]
    /\ filterSet = {}
    /\ disk \in [a : {InstallChanged, UpToDate, BuildChanged}, x : {NeverBuilt, UpToDate},
                 b : {InstallChanged, UpToDate}, c : {UpToDate}]
    /\ stopped = FALSE
    /\ results = <<>>
    /\ pool = NoPool
    /\ task = [n \in PkgNames(cfg) |-> IdleTask]
    /\ main = [NoMain EXCEPT !.pc = "build", !.packageFilter = <<>>]
    /\ call = StartOfRun(disk)

SpecReinstall == InitReinstall /\ [][Next]_vars

\* ---------------------------------------------------------------- SpecClean

\* One step of cleanPackage and how it ended.
Step(name, ok) == [step |-> name, ok |-> ok]

\* Builder.cleanPackage step by step (part_003:433-472). hasClean: the
\* package defines a clean recipe; scriptOk, makeOk, removeOk: how the
\* recipe, `make clean` and os.RemoveAll of the source directory end when
\* they are run. The result lists the steps that ran, the package's part of
\* the build directory afterwards and whether an error is returned.
CleanPackageSteps(d, hasClean, scriptOk, makeOk, removeOk) ==
    IF d.source = "absent" THEN [steps |-> <<>>, disk |-> d, err |-> FALSE]
    ELSE IF hasClean /\ scriptOk
    THEN [steps |-> <<Step("clean", TRUE)>>, disk |-> Invalidate(d), err |-> FALSE]
    ELSE LET tried == IF hasClean THEN <<Step("clean", FALSE)>> ELSE <<>>
         IN  IF makeOk
             THEN [steps |-> Append(tried, Step("make clean", TRUE)),
                   disk |-> Invalidate(d), err |-> FALSE]
             ELSE IF removeOk
             THEN [steps |-> tried \o <<Step("make clean", FALSE), Step("remove", TRUE)>>,
                   disk |-> Invalidate([d EXCEPT !.source = "absent", !.srcUrl = 0]),
                   err |-> FALSE]
             ELSE [steps |-> tried \o <<Step("make clean", FALSE), Step("remove", FALSE)>>,
                   disk |-> d, err |-> TRUE]

\* The package directories that cleanPackage is called on: never built, built
\* and installed, with an edited recipe, with an unreadable cache file, with
\* the source of a failed extraction, with the cache file removed.
CleanDisks ==
    {NeverBuilt, UpToDate, BuildChanged, Unparsable,
     [NeverBuilt EXCEPT !.source = "partial", !.srcUrl = 1, !.archive = TRUE],
     [UpToDate EXCEPT !.cache = CacheAbsent]}

\* The calls of SpecClean: cleanPackage on one package, with and without a
\* clean recipe, over every package directory of CleanDisks and every way
\* its steps can end.
InitClean ==
    /\ cfg = <<Pkg("a", <<>>)>>
    /\ iterOrder = <<>>
    /\ buildOrder = NotCalled
    /\ builderCfg = NoBuilderCfg
    /\ filterSet = {}
    /\ disk \in [{"a"} -> CleanDisks]
    /\ stopped = FALSE
    /\ results = <<>>
    /\ pool = NoPool
    /\ task = <<>>
    /\ main = NoMain
    /\ call \in [op : {"none"}, hasClean : BOOLEAN, scriptOk : BOOLEAN, makeOk : BOOLEAN,
                 removeOk : BOOLEAN, disk0 : {disk["a"]}, steps : {<<>>}, err : {FALSE}]

\* b.cleanPackage(pkg).
CallCleanPackage ==
    /\ call.op = "none"
    /\ LET r == CleanPackageSteps(disk["a"], call.hasClean, call.scriptOk, call.makeOk,
                                  call.removeOk)
       IN  /\ disk' = [disk EXCEPT !["a"] = r.disk]
           /\ call' = [call EXCEPT !.op = "cleanPackage", !.steps = r.steps,
                                   !.err = r.err]
    /\ UNCHANGED <<cfg, iterOrder, buildOrder, builderCfg, filterSet, stopped,
                   results, pool, task, main>>

NextClean == CallCleanPackage

SpecClean == InitClean /\ [][NextClean]_vars

\* ---------------------------------------------------------------- SpecTwice

\* The runs of SpecTwice: `makepkg` twice, without package arguments and
\* flags other than -j and --fail-fast, over the valid catalog of Spec and a
\* build directory in which a and x may be new, a's build recipe or b's
\* install recipe may have been edited and x's cache file may be unreadable.
InitTwice ==
    /\ cfg = SideChain
    /\ iterOrder = <<>>
    /\ buildOrder = NotCalled
    /\ builderCfg \in [FailFast : BOOLEAN, DryRun : {FALSE}, AlwaysInstall : {FALSE},
                       MaxConcurrency : 1..MaxJobs, sysroot : {1}, host : {1}]
    /\ filterSet = {}
    /\ disk \in [a : {NeverBuilt, BuildChanged, UpToDate},
                 x : {NeverBuilt, Unparsable, UpToDate},
                 b : {InstallChanged, UpToDate}, c : {UpToDate}]
    /\ stopped = FALSE
    /\ results = <<>>
    /\ pool = NoPool
    /\ task = [n \in PkgNames(cfg) |-> IdleTask]
    /\ main = [NoMain EXCEPT !.pc = "build", !.packageFilter = <<>>]
    /\ call = [op |-> "none", disk0 |-> disk, run |-> 1,
               lastInstall |-> [n \in PkgNames(cfg) |-> InstalledBefore(disk[n])],
               failed |-> FALSE]

SpecTwice == InitTwice /\ [][NextRuns]_vars

\* ----------------------------------------------------------------- SpecLive

\* The runs of SpecLive: real runs of Build without package arguments over
\* the catalogs of Spec, with -j 0 among the jobs values.
InitLive ==
    /\ cfg \in DriverCatalogs
    /\ iterOrder = <<>>
    /\ buildOrder = NotCalled
    /\ builderCfg \in [FailFast : BOOLEAN, DryRun : {FALSE}, AlwaysInstall : {FALSE},
                       MaxConcurrency : 0..MaxJobs, sysroot : {1}, host : {1}]
    /\ filterSet = {}
    /\ disk \in [a : {NeverBuilt, UpToDate}, x : {NeverBuilt}, b : {UpToDate},
                 c : {UpToDate}]
    /\ stopped = FALSE
    /\ results = <<>>
    /\ pool = NoPool
    /\ task = [n \in PkgNames(cfg) |-> IdleTask]
    /\ main = [NoMain EXCEPT !.pc = "build", !.packageFilter = <<>>]
    /\ call = StartOfRun(disk)

\* The runs of SpecLive under the scheduling of the Go runtime: a goroutine
\* that can take a step takes one in the end, and every fetch and every
\* recipe returns. No step of Next disables a step of another goroutine
\* for good, so weak fairness of Next stands for it.
SpecLive == InitLive /\ [][Next]_vars /\ WF_vars(Next)

\* ----------------------------------------------------------------- SpecStop

\* The goroutines of SpecStop: closures of buildLevel whose buildPackage
\* returned an error under fail-fast, all of one level.
StopCallers == {"a", "x", "b", "c"}

\* b.stoppedMutex, b.stopChan and what isStopped returned last.
NoStop == [mutex |-> "free", closes |-> 0, panic |-> FALSE, seen |-> FALSE]

\* A Lock that does not wait for the holder of the mutex.
MutexFreeAlways(m) == TRUE

\* b.stoppedMutex.Lock() can return: nobody holds the mutex.
MutexFree(m) == m = "free"

\* The calls of SpecStop: every goroutine of StopCallers is about to call
\* b.stop() (part_003:505-507) while buildLevel's loop calls b.isStopped()
\* (part_003:480).
InitStop ==
    /\ cfg = SideChain
    /\ iterOrder = <<>>
    /\ buildOrder = NotCalled
    /\ builderCfg = [NoBuilderCfg EXCEPT !.FailFast = TRUE]
    /\ filterSet = {}
    /\ disk = <<>>
    /\ stopped = FALSE
    /\ results = <<>>
    /\ pool = NoPool
    /\ task = [t \in StopCallers |-> [IdleTask EXCEPT !.pc = "failed", !.err = TRUE]]
    /\ main = NoMain
    /\ call = NoStop

\* stop: b.stoppedMutex.Lock() (part_003:697).
StopLock(t) ==
    /\ task[t].pc = "failed"
    /\ MutexFree(call.mutex)
    /\ call' = [call EXCEPT !.mutex = t]
    /\ task' = [task EXCEPT ![t].pc = "test"]
    /\ UNCHANGED <<cfg, iterOrder, buildOrder, builderCfg, filterSet, disk, stopped,
                   results, pool, main>>

\* stop: "if !b.stopped" (part_003:700).
StopTest(t) ==
    /\ task[t].pc = "test"
    /\ task' = [task EXCEPT ![t].pc = IF stopped THEN "unlock" ELSE "set"]
    /\ UNCHANGED <<cfg, iterOrder, buildOrder, builderCfg, filterSet, disk, stopped,
                   results, pool, main, call>>

\* stop: "b.stopped = true" (part_003:701).
StopSet(t) ==
    /\ task[t].pc = "set"
    /\ stopped' = TRUE
    /\ task' = [task EXCEPT ![t].pc = "close"]
    /\ UNCHANGED <<cfg, iterOrder, buildOrder, builderCfg, filterSet, disk, results,
                   pool, main, call>>

\* stop: close(b.stopChan) (part_003:702); the close of a closed channel
\* panics.
StopClose(t) ==
    /\ task[t].pc = "close"
    /\ call' = [call EXCEPT !.closes = @ + 1, !.panic = @ \/ call.closes > 0]
    /\ task' = [task EXCEPT ![t].pc = "unlock"]
    /\ UNCHANGED <<cfg, iterOrder, buildOrder, builderCfg, filterSet, disk, stopped,
                   results, pool, main>>

\* stop: the deferred Unlock (part_003:698); the closure returns.
StopUnlock(t) ==
    /\ task[t].pc = "unlock"
    /\ call' = [call EXCEPT !.mutex = IF @ = t THEN "free" ELSE @]
    /\ task' = [task EXCEPT ![t].pc = "ret"]
    /\ UNCHANGED <<cfg, iterOrder, buildOrder, builderCfg, filterSet, disk, stopped,
                   results, pool, main>>

\* isStopped (part_003:706-710), called by another goroutine: Lock, read,
\* Unlock.
IsStopped ==
    /\ MutexFree(call.mutex)
    /\ call' = [call EXCEPT !.seen = stopped]
    /\ UNCHANGED <<cfg, iterOrder, buildOrder, builderCfg, filterSet, disk, stopped,
                   results, pool, task, main>>

NextStop ==
    \/ \E t \in StopCallers : StopLock(t)
    \/ \E t \in StopCallers : StopTest(t)
    \/ \E t \in StopCallers : StopSet(t)
    \/ \E t \in StopCallers : StopClose(t)
    \/ \E t \in StopCallers : StopUnlock(t)
    \/ IsStopped

SpecStop == InitStop /\ [][NextStop]_vars

\* ------------------------------------------------------------------ SpecEnv

\* Largest number of layers of a merged environment in SpecEnv.
MaxLayers == 2

\* Strings are sequences of characters. The variable names and the values of
\* SpecEnv: an empty value, a blank one, one with a "=" in it.
EnvKeys == {<<"K">>, <<"L">>}

EnvValues == {<<>>, <<" ">>, <<"u">>, <<"v", "=", "u">>}

\* The baseEnv maps of a Manager over EnvKeys.
Managers == UNION {[D -> EnvValues] : D \in SUBSET EnvKeys}

\* Manager.Get (main.go:257-260).
ManagerGet(e, key) ==
    IF key \in DOMAIN e THEN [val |-> e[key], ok |-> TRUE] ELSE [val |-> <<>>, ok |-> FALSE]

\* Manager.Set (main.go:251-255).
ManagerSet(e, key, value) ==
    [k \in DOMAIN e \cup {key} |-> IF k = key THEN value ELSE e[k]]

\* strings.TrimSpace(s) != "" for the strings of SpecEnv.
NotBlank(v) == \E i \in 1..Len(v) : v[i] # " "

\* Manager.PrependToVar (main.go:262-269).
ManagerPrependToVar(e, key, value, sep) ==
    IF key \in DOMAIN e /\ NotBlank(e[key])
    THEN ManagerSet(e, key, value \o sep \o e[key])
    ELSE ManagerSet(e, key, value)

\* Manager.ToSlice (main.go:345-351): "k=v" for every entry of the map, in
\* the order in which the map is iterated.
ManagerToSlice(e, iter) ==
    LET keys == SelectSeq(iter, LAMBDA k : k \in DOMAIN e)
    IN  [i \in 1..Len(keys) |-> keys[i] \o <<"=">> \o e[keys[i]]]

\* mergedEnv.Get (merged.go:16-23).
RECURSIVE MergedGetFrom(_, _, _)
MergedGetFrom(envs, key, i) ==
    IF i > Len(envs) THEN [val |-> <<>>, ok |-> FALSE]
    ELSE IF ManagerGet(envs[i], key).ok THEN ManagerGet(envs[i], key)
    ELSE MergedGetFrom(envs, key, i + 1)

MergedGet(envs, key) == MergedGetFrom(envs, key, 1)

\* mergedEnv.Set (merged.go:25-31).
MergedSet(envs, key, value) ==
    IF Len(envs) = 0 THEN envs ELSE [envs EXCEPT ![1] = ManagerSet(@, key, value)]

\* mergedEnv.PrependToVar (merged.go:33-39).
MergedPrependToVar(envs, key, value, sep) ==
    IF Len(envs) = 0 THEN envs
    ELSE [envs EXCEPT ![1] = ManagerPrependToVar(@, key, value, sep)]

\* strings.SplitN(kv, "=", 2): the parts of kv around its first "=".
FirstEq(kv) ==
    IF \E i \in 1..Len(kv) : kv[i] = "="
    THEN CHOOSE i \in 1..Len(kv) : kv[i] = "=" /\ \A j \in 1..(i - 1) : kv[j] # "="
    ELSE 0

SplitN2(kv) ==
    IF FirstEq(kv) = 0 THEN <<kv>>
    ELSE <<SubSeq(kv, 1, FirstEq(kv) - 1), SubSeq(kv, FirstEq(kv) + 1, Len(kv))>>

Reverse(sq) == [i \in 1..Len(sq) |-> sq[Len(sq) + 1 - i]]

\* mergedEnv.ToSlice's loops (merged.go:97-110): the layers from the last to
\* the first, the entries of a layer in its order; an entry is appended when
\* its key has not been seen. slices[i] is what layer i's ToSlice returned.
RECURSIVE MergeLoop(_, _, _, _, _)
MergeLoop(slices, i, j, result, seen) ==
    IF i < 1 THEN result
    ELSE IF j > Len(slices[i]) THEN MergeLoop(slices, i - 1, 1, result, seen)
    ELSE LET kv    == slices[i][j]
             parts == SplitN2(kv)
         IN  IF Len(parts) = 2 /\ parts[1] \notin seen
             THEN MergeLoop(slices, i, j + 1, Append(result, kv), seen \cup {parts[1]})
             ELSE MergeLoop(slices, i, j + 1, result, seen)

\* mergedEnv.ToSlice (merged.go:96-116).
MergedToSlice(slices) == Reverse(MergeLoop(slices, Len(slices), 1, <<>>, {}))

\* No call yet.
NoEnvCall == [op |-> "none", key |-> <<>>, envs0 |-> <<>>, got |-> ManagerGet(<<>>, <<>>),
              out |-> <<>>]

\* The merged environments of SpecEnv: up to MaxLayers layers.
InitEnv ==
    /\ cfg = <<>>
    /\ iterOrder = <<>>
    /\ buildOrder = NotCalled
    /\ builderCfg = NoBuilderCfg
    /\ filterSet = {}
    /\ disk \in UNION {[1..n -> Managers] : n \in 0..MaxLayers}
    /\ stopped = FALSE
    /\ results = <<>>
    /\ pool = NoPool
    /\ task = <<>>
    /\ main = NoMain
    /\ call = NoEnvCall

\* m.Get(key).
CallGet ==
    /\ call.op = "none"
    /\ \E key \in EnvKeys :
          call' = [call EXCEPT !.op = "Get", !.key = key, !.envs0 = disk,
                               !.got = MergedGet(disk, key)]
    /\ UNCHANGED <<cfg, iterOrder, buildOrder, builderCfg, filterSet, disk, stopped,
                   results, pool, task, main>>

\* m.Set(key, value).
CallSet ==
    /\ call.op = "none"
    /\ \E key \in EnvKeys, value \in EnvValues :
          /\ disk' = MergedSet(disk, key, value)
          /\ call' = [call EXCEPT !.op = "Set", !.key = key, !.envs0 = disk]
    /\ UNCHANGED <<cfg, iterOrder, buildOrder, builderCfg, filterSet, stopped,
                   results, pool, task, main>>

\* m.PrependToVar(key, value, ":").
CallPrependToVar ==
    /\ call.op = "none"
    /\ \E key \in EnvKeys, value \in EnvValues :
          /\ disk' = MergedPrependToVar(disk, key, value, <<":">>)
          /\ call' = [call EXCEPT !.op = "PrependToVar", !.key = key, !.envs0 = disk]
    /\ UNCHANGED <<cfg, iterOrder, buildOrder, builderCfg, filterSet, stopped,
                   results, pool, task, main>>

\* m.ToSlice(); every layer's map is iterated in an order of its own.
CallToSlice ==
    /\ call.op = "none"
    /\ \E iters \in [1..Len(disk) -> PermSeqs(EnvKeys)] :
          call' = [call EXCEPT !.op = "ToSlice", !.envs0 = disk,
                               !.out = MergedToSlice([i \in 1..Len(disk) |->
                                           ManagerToSlice(disk[i], iters[i])])]
    /\ UNCHANGED <<cfg, iterOrder, buildOrder, builderCfg, filterSet, disk, stopped,
                   results, pool, task, main>>

NextEnv ==
    \/ CallGet
    \/ CallSet
    \/ CallPrependToVar
    \/ CallToSlice

SpecEnv == InitEnv /\ [][NextEnv]_vars

\* ---------------------------------------------------------------- SpecCache

\* The values of a url, a recipe, a host or a sysroot, and the env lists.
Texts == {1, 2}

EnvLists == {<<>>, <<1>>, <<1, 2>>, <<2, 1>>}

\* The cache files: none, an unreadable one, or any Info over the values.
CacheFiles ==
    {CacheAbsent, CacheCorrupt} \cup
    [state : {"ok"}, url : Texts, build : Texts, install : {1}, env : EnvLists,
     host : Texts, sysroot : Texts]

\* One package, its part of the build directory, and the sysroot and host
\* of the call.
InitCache ==
    /\ cfg \in {<<[Pkg("a", <<>>) EXCEPT !.url = u, !.build = b, !.env = e]>> :
                    u \in Texts, b \in Texts, e \in EnvLists}
    /\ iterOrder = <<>>
    /\ buildOrder = NotCalled
    /\ builderCfg \in {[NoBuilderCfg EXCEPT !.sysroot = s, !.host = h] :
                          s \in Texts, h \in Texts}
    /\ filterSet = {}
    /\ disk \in [{"a"} -> {[NeverBuilt EXCEPT !.cache = f, !.source = src] :
                              f \in CacheFiles,
                              src \in {"absent", "partial", "complete"}}]
    /\ stopped = FALSE
    /\ results = <<>>
    /\ pool = NoPool
    /\ task = <<>>
    /\ main = NoMain
    /\ call = NoCall

\* cache.NeedsRebuild(pkg, sysroot, host).
CallNeedsRebuild ==
    /\ call.op = "none"
    /\ call' = [op |-> "NeedsRebuild",
                result |-> needsRebuildWithReason(disk["a"], cfg[1], builderCfg.sysroot,
                                                  builderCfg.host)]
    /\ UNCHANGED <<cfg, iterOrder, buildOrder, builderCfg, filterSet, disk, stopped,
                   results, pool, task, main>>

\* cache.NeedsReinstall(pkg, sysroot, host).
CallNeedsReinstall ==
    /\ call.op = "none"
    /\ call' = [op |-> "NeedsReinstall",
                result |-> needsReinstallWithReason(disk["a"], cfg[1], builderCfg.sysroot,
                                                    builderCfg.host)]
    /\ UNCHANGED <<cfg, iterOrder, buildOrder, builderCfg, filterSet, disk, stopped,
                   results, pool, task, main>>

NextCache ==
    \/ CallNeedsRebuild
    \/ CallNeedsReinstall

SpecCache == InitCache /\ [][NextCache]_vars

\* ---------------------------------------------------------------- SpecWrite

\* Two versions of one package: what the catalog said at the time of
\* WriteBuild and at the time of WriteInstall.
PkgVersions ==
    {[Pkg("a", <<>>) EXCEPT !.url = u, !.build = b, !.install = i, !.env = e] :
        u \in Texts, b \in Texts, i \in Texts, e \in {<<1>>, <<2, 1>>}}

\* The cache files before the two calls: none, an unreadable one, a record
\* of an earlier build, of an earlier build and install.
PriorFiles ==
    {CacheAbsent, CacheCorrupt} \cup
    [state : {"ok"}, url : {2}, build : Texts, install : {0, 2}, env : {<<>>, <<2>>},
     host : {2}, sysroot : {2}]

InitWrite ==
    /\ cfg \in {<<p1, p2>> : p1 \in PkgVersions, p2 \in PkgVersions}
    /\ iterOrder = <<>>
    /\ buildOrder = NotCalled
    /\ builderCfg = NoBuilderCfg
    /\ filterSet = {}
    /\ disk \in [{"a"} -> {[NeverBuilt EXCEPT !.cache = f] : f \in PriorFiles}]
    /\ stopped = FALSE
    /\ results = <<>>
    /\ pool = NoPool
    /\ task = <<>>
    /\ main = NoMain
    /\ call = NoCall

\* cache.WriteBuild(pkgName, sysroot, host, pkg) with the first version.
CallWriteBuild ==
    /\ call.op = "none"
    /\ \E s \in Texts, h \in Texts :
          /\ disk' = [disk EXCEPT !["a"].cache = WriteBuild(@, s, h, cfg[1])]
          /\ call' = [op |-> "WriteBuild", sysroot |-> s, host |-> h,
                      err |-> Read(disk["a"].cache).kind = "err"]
    /\ UNCHANGED <<cfg, iterOrder, buildOrder, builderCfg, filterSet, stopped,
                   results, pool, task, main>>

\* cache.WriteInstall(pkgName, sysroot, host, pkg) with the second version.
CallWriteInstall ==
    /\ call.op = "WriteBuild"
    /\ \E s \in Texts, h \in Texts :
          /\ disk' = [disk EXCEPT !["a"].cache = WriteInstall(@, s, h, cfg[2])]
          /\ call' = [op |-> "WriteInstall", sysroot |-> s, host |-> h,
                      err |-> Read(disk["a"].cache).kind = "err"]
    /\ UNCHANGED <<cfg, iterOrder, buildOrder, builderCfg, filterSet, stopped,
                   results, pool, task, main>>

NextWrite ==
    \/ CallWriteBuild
    \/ CallWriteInstall

SpecWrite == InitWrite /\ [][NextWrite]_vars

\* ----------------------------------------------------------------- SpecPool

PoolTasks == {"t1", "t2", "t3"}

\* Largest number of Wait calls of the pool's owner in SpecPool.
MaxWaits == 2

\* SpecPool's record of the owner's Wait calls: for each call that returned,
\* the tasks that had been submitted when it was made.
NoWait == [op |-> "Wait", returned |-> <<>>]

InitPool ==
    /\ cfg = <<>>
    /\ iterOrder = <<>>
    /\ buildOrder = NotCalled
    /\ builderCfg = NoBuilderCfg
    /\ filterSet = {}
    /\ disk = <<>>
    /\ stopped = FALSE
    /\ results = <<>>
    /\ pool \in {NewWorkerPool(n) : n \in -1..MaxJobs}
    /\ task = [t \in PoolTasks |-> IdleTask]
    /\ main = NoMain
    /\ call = NoWait

\* WorkerPool.Submit (dependency.go:94-102): wg.Add(1) and the goroutine.
PoolSubmit(t) ==
    /\ main.pc # "wait"
    /\ task[t].pc = "idle"
    /\ pool' = [pool EXCEPT !.wg = @ + 1]
    /\ task' = [task EXCEPT ![t].pc = "acquire", ![t].withStop = FALSE]
    /\ UNCHANGED <<cfg, iterOrder, buildOrder, builderCfg, filterSet, disk, stopped,
                   results, main, call>>

\* WorkerPool.SubmitWithStop (dependency.go:105-123): wg.Add(1) and the goroutine.
PoolSubmitWithStop(t) ==
    /\ main.pc # "wait"
    /\ task[t].pc = "idle"
    /\ pool' = [pool EXCEPT !.wg = @ + 1]
    /\ task' = [task EXCEPT ![t].pc = "select1", ![t].withStop = TRUE]
    /\ UNCHANGED <<cfg, iterOrder, buildOrder, builderCfg, filterSet, disk, stopped,
                   results, main, call>>

\* The caller closes the stop channel (part_002:301, 319).
PoolCloseStop ==
    /\ ~stopped
    /\ stopped' = TRUE
    /\ UNCHANGED <<cfg, iterOrder, buildOrder, builderCfg, filterSet, disk, results,
                   pool, task, main, call>>

\* The submitted closure runs to its end.
PoolTaskBody(t) ==
    /\ task[t].pc = "run"
    /\ task' = [task EXCEPT ![t].pc = "ret"]
    /\ UNCHANGED <<cfg, iterOrder, buildOrder, builderCfg, filterSet, disk, stopped,
                   results, pool, main, call>>

\* The pool's owner calls WorkerPool.Wait (dependency.go:126-128,
\* part_002:222, 341, 349): it submits nothing until the call returns.
PoolWait ==
    /\ main.pc = "none"
    /\ Len(call.returned) < MaxWaits
    /\ main' = [main EXCEPT !.pc = "wait"]
    /\ UNCHANGED <<cfg, iterOrder, buildOrder, builderCfg, filterSet, disk, stopped,
                   results, pool, task, call>>

\* wg.Wait returns to the owner.
PoolWaitReturn ==
    /\ main.pc = "wait"
    /\ WaitReturns(pool)
    /\ main' = [main EXCEPT !.pc = "none"]
    /\ call' = [call EXCEPT !.returned =
                    Append(@, {t \in PoolTasks : task[t].pc # "idle"})]
    /\ UNCHANGED <<cfg, iterOrder, buildOrder, builderCfg, filterSet, disk, stopped,
                   results, pool, task>>

NextPool ==
    \/ PoolWait
    \/ PoolWaitReturn
    \/ \E t \in PoolTasks : PoolSubmit(t)
    \/ \E t \in PoolTasks : PoolSubmitWithStop(t)
    \/ PoolCloseStop
    \/ \E t \in PoolTasks : GoAcquire(t)
    \/ \E t \in PoolTasks : GoSelectSlot(t)
    \/ \E t \in PoolTasks : GoSelectStop(t)
    \/ \E t \in PoolTasks : GoRecheck(t)
    \/ \E t \in PoolTasks : PoolTaskBody(t)
    \/ \E t \in PoolTasks : GoReturn(t)

SpecPool == InitPool /\ [][NextPool]_vars

\* ------------------------------------------------- graph notions (claims)

DirectDeps(c, n) ==
    UNION {Range(c[i].depends_on) : i \in {j \in 1..Len(c) : c[j].name = n}}

RECURSIVE DepClosure(_, _)
DepClosure(c, S) ==
    LET T == S \cup UNION {DirectDeps(c, n) : n \in S}
    IN  IF T = S THEN S ELSE DepClosure(c, T)

\* Everything n depends on, directly or transitively.
TransitiveDeps(c, n) == DepClosure(c, DirectDeps(c, n))

\* Everything that depends on n, directly or transitively.
TransitiveDependents(c, n) == {m \in PkgNames(c) : n \in TransitiveDeps(c, m)}

UniqueNames(c) == \A i, j \in 1..Len(c) : c[i].name = c[j].name => i = j

AllDepsDefined(c) == \A n \in PkgNames(c) : DirectDeps(c, n) \subseteq PkgNames(c)

Acyclic(c) == \A n \in PkgNames(c) : n \notin TransitiveDeps(c, n)

ValidCatalog(c) == UniqueNames(c) /\ AllDepsDefined(c) /\ Acyclic(c)

RECURSIVE Flatten(_)
Flatten(levels) ==
    IF levels = <<>> THEN <<>> ELSE Head(levels) \o Flatten(Tail(levels))

\* The indices of the levels that hold n.
LevelsOf(levels, n) == {i \in 1..Len(levels) : n \in Range(levels[i])}

\* ------------------------------------------------------------------ claims

\* C1: for every catalog with unique names, all dependencies defined and no
\* cycle, GetBuildOrder returns levels whose concatenation contains every
\* package name exactly once, and every dependency of a package lies in a
\* level with a strictly smaller index than the package's level.
C1_BuildOrderTopological ==
    (buildOrder.err # "notcalled" /\ ValidCatalog(cfg)) =>
        /\ buildOrder.err = "none"
        /\ Len(Flatten(buildOrder.levels)) = Len(cfg)
        /\ Range(Flatten(buildOrder.levels)) = PkgNames(cfg)
        /\ \A n \in PkgNames(cfg) : \A d \in DirectDeps(cfg, n) :
              \A i \in LevelsOf(buildOrder.levels, n) :
                \E k \in LevelsOf(buildOrder.levels, d) : k < i

\* A diamond resolved into its three levels.
C1_Witness ==
    /\ cfg = Diamond
    /\ buildOrder.err = "none"
    /\ Len(buildOrder.levels) = 3
    /\ Range(buildOrder.levels[2]) = {"b", "c"}

\* C6: for a WorkerPool created with N workers (N <= 0 treated as 1), at no
\* time are more than max(N, 1) tasks executing, whatever the interleaving of
\* Submit and SubmitWithStop calls.
C6_BoundedConcurrency ==
    Cardinality({t \in DOMAIN task : Executing(t)}) <= (IF pool.n >= 1 THEN pool.n ELSE 1)

\* A pool made with N = 0 runs one task while a Submit task and a
\* SubmitWithStop task wait for the slot.
C6_Witness ==
    /\ pool.n = 0
    /\ \E t, u, v \in DOMAIN task :
          /\ Executing(t)
          /\ task[u].pc = "acquire"
          /\ task[v].pc = "select1"

\* C7: a SubmitWithStop task that is submitted, or still waits for a slot or
\* for the re-check, while the stop channel is closed never begins to execute
\* (also when a slot is free): its goroutine can only end abandoned; a task
\* that is executing is never abandoned.
C7_StoppedTaskNeverRuns ==
    [][\A t \in DOMAIN task :
         /\ (stopped /\ task[t].pc \in {"select1", "select2"})
                => task'[t].pc \in {"select1", "select2", "abandoned"}
         /\ (stopped /\ task[t].pc = "idle" /\ task'[t].withStop)
                => task'[t].pc \in {"idle", "select1"}
         /\ Executing(t) => task'[t].pc # "abandoned"]_vars

\* The stop channel is closed, a SubmitWithStop task ended abandoned although
\* a slot is free, and a task that was running goes on.
C7_Witness ==
    /\ stopped
    /\ pool.sem < pool.maxWorkers
    /\ \E t, u \in DOMAIN task :
          /\ task[t].withStop /\ task[t].pc = "abandoned"
          /\ task[u].withStop /\ Executing(u)

\* The packages of a strictly earlier level than p.
EarlierLevel(p) ==
    {q \in PkgNames(cfg) :
        \E i \in LevelsOf(buildOrder.levels, q) :
            \E k \in LevelsOf(buildOrder.levels, p) : i < k}

HasFailure(rs, p) == \E k \in 1..Len(rs) : rs[k].Package = p /\ ~rs[k].Success

\* C2: during Build no task of a level is submitted before every task of the
\* earlier levels has terminated, so a package's task never starts before
\* the tasks of all its direct and transitive dependencies have terminated
\* (and with them their cache writes).
C2_LevelBarrier ==
    \A p \in PkgNames(cfg) :
        task[p].pc # "idle" =>
            /\ \A q \in EarlierLevel(p) : task[q].pc \in {"idle"} \cup EndPcs
            /\ \A d \in TransitiveDeps(cfg, p) : task[d].pc \in EndPcs

\* c is being checked while a, x and b have all ended, b after a rebuild.
C2_Witness ==
    /\ task["c"].pc = "check"
    /\ task["a"].pc = "done" /\ task["x"].pc = "done" /\ task["b"].pc = "done"
    /\ task["b"].built

C5_DependentsRebuiltInSameRun ==
    (main.packageFilter = <<>> /\ \A k \in 1..Len(results) : results[k].Success) =>
        \A A \in PkgNames(cfg) :
            task[A].built =>
                \A m \in TransitiveDependents(cfg, A) :
                    /\ task[m].pc = "idle" => disk[m].cache.state = "absent"
                    /\ main.pc = "exited" => task[m].built

\* C8: with fail-fast, once a package task has returned an error the stop
\* signal is closed; from then on no task that has not started enters
\* buildPackage, no further task is submitted, and Build returns an error.
C8_FailFast ==
    /\ [](builderCfg.FailFast =>
            /\ (\E p \in PkgNames(cfg) : task[p].err) => stopped
            /\ ((\E p \in PkgNames(cfg) : task[p].err) /\ main.ret # "none")
                    => main.ret = "err")
    /\ [][(builderCfg.FailFast /\ stopped) =>
            \A p \in PkgNames(cfg) :
                /\ ~task[p].entered => ~task'[p].entered
                /\ task[p].pc = "idle" => task'[p].pc = "idle"]_vars

\* One worker, fail-fast: a failed, x was waiting for the slot and was
\* abandoned, b and c were never submitted, and Build returned an error.
C8_Witness ==
    /\ builderCfg.FailFast /\ stopped
    /\ task["a"].err /\ task["a"].pc = "done"
    /\ task["x"].pc = "abandoned" /\ ~task["x"].entered
    /\ task["b"].pc = "idle" /\ task["c"].pc = "idle"
    /\ main.ret = "err"

\* C9: every error a package task ends with is appended to results for that
\* package: a package whose task returned an error has a failure entry in
\* results and, once the summary is made, in the summary.
C9_EveryErrorRecorded ==
    \A p \in PkgNames(cfg) :
        task[p].err =>
            /\ HasFailure(results, p)
            /\ main.pc \in {"exit", "exited"} => HasFailure(main.summary, p)

\* C10: the process exits with a non-zero status when at least one result of
\* the run is a failure, and with status 0 when every result is a success.
C10_ExitReflectsFailures ==
    main.pc = "exited" =>
        IF \E k \in 1..Len(results) : ~results[k].Success
        THEN main.exit # 0
        ELSE main.exit = 0

\* C11: once the handler of an external SIGINT or SIGTERM has run, the
\* driver's stop signal is closed: from then on no package task that has
\* not started is run and no task of a later level is submitted.
C11_SignalStopsBuild ==
    [][main.signals = 1 =>
          \A p \in PkgNames(cfg) :
             /\ ~task[p].entered => ~task'[p].entered
             /\ task[p].pc = "idle" => task'[p].pc = "idle"]_vars

\* GetBuildOrder returns an error and no levels exactly when a dependency is
\* undefined or the graph has a cycle.
ErrorIffMissingOrCycle ==
    /\ buildOrder.err # "none" <=> (~AllDepsDefined(cfg) \/ ~Acyclic(cfg))
    /\ buildOrder.err # "none" => buildOrder.levels = <<>>
    /\ buildOrder.err = "none" => buildOrder.levels # <<>>

\* C12 (as stated): for every catalog, GetBuildOrder returns an error and no
\* levels exactly when some depends_on entry names an undefined package or
\* the dependency graph contains a cycle, and levels without an error in
\* every other case.
C12_ErrorIffMissingOrCycle_AnyCatalog ==
    buildOrder.err # "notcalled" => ErrorIffMissingOrCycle

\* C12 (amended): for every catalog with unique names, GetBuildOrder returns
\* an error and no levels exactly when some depends_on entry names an
\* undefined package or the dependency graph contains a cycle (also when only
\* part of the catalog lies on the cycle), and levels without an error in
\* every other case.
C12_ErrorIffMissingOrCycle ==
    (buildOrder.err # "notcalled" /\ UniqueNames(cfg)) => ErrorIffMissingOrCycle

\* The catalog whose cycle b, c, d leaves a outside is refused without levels.
C12_Witness ==
    /\ cfg = PartialCycle
    /\ buildOrder.err = "circular"
    /\ buildOrder.levels = <<>>

InvalidGraph(c) == ~AllDepsDefined(c) \/ ~Acyclic(c)

\* C13: when the catalog has a cycle or an undefined dependency, Build
\* returns an error before any package task is submitted: no task leaves its
\* idle state, the build directory (cache files, sources, archives,
\* artifacts) stays as it was and no result is recorded.
C13_InvalidCatalogNoTask ==
    /\ []((InvalidGraph(cfg) /\ main.pc # "build") => main.ret = "err")
    /\ [][InvalidGraph(cfg) =>
            /\ task' = task
            /\ disk' = disk
            /\ results' = results]_vars

\* Build has returned its error for the catalog with the cycle b, c, over a
\* build directory in which a's recipe was edited, and the process has ended.
C13_Witness ==
    /\ cfg = CycleChain
    /\ buildOrder.err = "circular"
    /\ main.ret = "err" /\ main.pc = "exited"
    /\ disk["a"] = BuildChanged
    /\ results = <<>>

\* The packages of the levels before level i.
Before(levels, i) == UNION {Range(levels[j]) : j \in 1..(i - 1)}

Max(S) == CHOOSE m \in S : \A k \in S : k <= m

\* The number of packages on the longest dependency chain that ends in n.
RECURSIVE ChainLength(_, _)
ChainLength(c, n) ==
    IF DirectDeps(c, n) = {} THEN 1
    ELSE 1 + Max({ChainLength(c, d) : d \in DirectDeps(c, n)})

\* C14: in the levels GetBuildOrder returns for a valid catalog, level i is
\* exactly the set of packages not in an earlier level whose dependencies
\* all lie in the levels before i, so the level of a package is the length
\* of its longest dependency chain.
C14_LevelIsLongestChain ==
    (buildOrder.err # "notcalled" /\ ValidCatalog(cfg)) =>
        /\ \A i \in 1..Len(buildOrder.levels) :
              Range(buildOrder.levels[i]) =
                 {n \in PkgNames(cfg) \ Before(buildOrder.levels, i) :
                     DirectDeps(cfg, n) \subseteq Before(buildOrder.levels, i)}
        /\ \A n \in PkgNames(cfg) :
              LevelsOf(buildOrder.levels, n) = {ChainLength(cfg, n)}

\* The five packages of the complex graph in their three levels, app2 behind
\* both libraries.
C14_Witness ==
    /\ cfg = ComplexGraph
    /\ Len(buildOrder.levels) = 3
    /\ buildOrder.levels[1] = <<"base">>
    /\ Range(buildOrder.levels[2]) = {"lib1", "lib2"}
    /\ Range(buildOrder.levels[3]) = {"app1", "app2"}

\* C15: a dry-run Build leaves the build directory and the sysroot as they
\* were: no cache file is written or removed, no source tree or archive is
\* fetched or deleted, no artifacts directory is made or removed and nothing
\* is installed.
C15_DryRunChangesNothing ==
    [][builderCfg.DryRun => disk' = disk]_vars

\* A dry run has ended after it reported a, never built, and b as packages
\* to build; neither has a source tree, a cache file or an artifacts
\* directory.
C15_Witness ==
    /\ builderCfg.DryRun /\ main.pc = "exited" /\ main.ret = "ok"
    /\ task["a"].needsRebuild /\ task["b"].needsRebuild
    /\ task["a"].pc = "done" /\ task["b"].pc = "done"
    /\ disk["a"] = NeverBuilt /\ disk["b"] = NeverBuilt

\* What buildPackage does with a package after its two cache queries.
Decision(needsRebuild, needsReinstall) ==
    IF needsRebuild THEN "fetch and rebuild"
    ELSE IF needsReinstall THEN "reinstall only"
    ELSE "skip"

\* The decision that the cache state d of a package gives.
DecisionOn(d, pkg) ==
    Decision(needsRebuildWithReason(d, pkg, builderCfg.sysroot, builderCfg.host).needs,
             builderCfg.AlwaysInstall
                \/ needsReinstallWithReason(d, pkg, builderCfg.sysroot, builderCfg.host).needs)

\* The task of p has taken its decision.
Decided(p) ==
    task[p].pc \in {"prep", "fetch", "build", "wb", "inval", "install", "wi"}
        \/ (task[p].pc \in {"ret", "done"} /\ task[p].entered /\ ~task[p].err)
        \/ (task[p].err /\ HasFailure(results, p))

\* The cache file that p had at the start can be read, so that a dry run
\* comes to a decision for p.
DryRunDecides(p) == Read(call.disk0[p].cache).kind # "err"

\* A dry run reports for each package the decision that the build directory
\* it started from gives (it changes nothing on the way).
DryRunReportsStartState ==
    builderCfg.DryRun =>
        \A p \in PkgNames(cfg) :
            Decided(p) => Decision(task[p].needsRebuild, task[p].needsReinstall)
                            = DecisionOn(call.disk0[p], ThePkg(p))

\* C16: started from the same on-disk cache state and catalog, the decision
\* (skip, reinstall only, fetch and rebuild) that a dry run reports for a
\* package, which is the one the start state gives, is the decision that a
\* real run takes for that package.
C16_DryRunDecidesAsRealRun ==
    \A p \in PkgNames(cfg) :
        (Decided(p) /\ DryRunDecides(p)) => Decision(task[p].needsRebuild, task[p].needsReinstall)
                        = DecisionOn(call.disk0[p], ThePkg(p))

\* C17: a failure to read a package's makepkg.json (an unparsable file
\* included) is only a warning: the task that meets it at its first cache
\* query does not fail, and goes on with the package as one that needs a
\* rebuild.
C17_CacheReadErrorIsWarning ==
    [][\A p \in PkgNames(cfg) :
          (/\ task[p].pc = "check"
           /\ Read(disk[p].cache).kind = "err"
           /\ task'[p].pc # "check")
              => (task'[p].pc = "check2" /\ task'[p].needsRebuild)]_vars

\* The cache record d agrees with pkg in every fingerprint field and the
\* source directory is there.
Matches(d, pkg) ==
    /\ d.cache.state = "ok"
    /\ d.cache.url = pkg.url /\ d.cache.build = pkg.build
    /\ d.cache.install = pkg.install /\ d.cache.env = pkg.env
    /\ d.cache.host = builderCfg.host /\ d.cache.sysroot = builderCfg.sysroot
    /\ d.source # "absent"

\* The last result recorded for p is a success.
LastSuccess(p) ==
    /\ \E k \in 1..Len(results) : results[k].Package = p
    /\ results[Max({k \in 1..Len(results) : results[k].Package = p})].Success

\* With always_install, the task of p found nothing to rebuild.
ReinstallOnly(p) ==
    /\ builderCfg.AlwaysInstall
    /\ task[p].entered /\ ~task[p].needsRebuild /\ task[p].needsReinstall

\* With always_install a task that finds a matching cache record decides to
\* reinstall only; such a task never fetches or builds, and its steps leave
\* every other package's files alone.
ReinstallOnlyRunsNoBuild ==
    /\ [][\A p \in PkgNames(cfg) :
            /\ (/\ builderCfg.AlwaysInstall
                /\ task[p].pc = "check" /\ Matches(disk[p], ThePkg(p))
                /\ task'[p].pc # "check")
                  => (task'[p].pc = "check2" /\ ~task'[p].needsRebuild)
            /\ (/\ builderCfg.AlwaysInstall
                /\ task[p].pc = "check2" /\ ~task[p].needsRebuild
                /\ task'[p].pc # "check2")
                  => (task'[p].pc = "prep" /\ task'[p].needsReinstall)
            /\ (ReinstallOnly(p) /\ task'[p] # task[p])
                  => \A m \in PkgNames(cfg) \ {p} : disk'[m] = disk[m]]_vars
    /\ [](\A p \in PkgNames(cfg) :
            ReinstallOnly(p) =>
                /\ ~task[p].ranBuild /\ ~task[p].built
                /\ task[p].pc \notin {"fetch", "build", "wb", "inval"})

\* C18 (as stated): with always_install set and a cache record that matches
\* the package in every fingerprint field with the source directory present,
\* the task runs INSTALL and not BUILD, removes no dependent's cache file,
\* and ends with a success result.
C18_AlwaysInstallReinstalls_AsStated ==
    /\ ReinstallOnlyRunsNoBuild
    /\ [](\A p \in PkgNames(cfg) :
            (ReinstallOnly(p) /\ task[p].pc \in {"ret", "done"}) =>
                (task[p].ranInstall /\ LastSuccess(p)))

\* C18 (amended): with always_install set and a cache record that matches
\* the package in every fingerprint field with the source directory present,
\* the task does not run BUILD and removes no dependent's cache file; in a
\* real run it runs INSTALL and ends with a success result when INSTALL
\* succeeds and with a failure result when it fails; a dry run runs no
\* recipe and records a success.
C18_AlwaysInstallReinstalls ==
    /\ ReinstallOnlyRunsNoBuild
    /\ [](\A p \in PkgNames(cfg) :
            (ReinstallOnly(p) /\ task[p].pc \in {"ret", "done"}) =>
                IF builderCfg.DryRun
                THEN ~task[p].ranInstall /\ LastSuccess(p)
                ELSE /\ task[p].ranInstall
                     /\ LastSuccess(p) <=> ~task[p].err
                     /\ task[p].err => HasFailure(results, p))

\* A real run with always_install has reinstalled b, whose cache record
\* matched, with success; the cache file of its dependent c is as before.
C18_Witness ==
    /\ ~builderCfg.DryRun
    /\ call.disk0["b"] = UpToDate
    /\ ReinstallOnly("b") /\ task["b"].pc = "done"
    /\ task["b"].ranInstall /\ LastSuccess("b")
    /\ disk["c"] = UpToDate

\* C19: under --always-make (Clean followed by Build with the same package
\* arguments) every package that the Build phase attempts has its BUILD
\* recipe run: no task of Build ends without an error and without BUILD,
\* as one that skipped its package or only reinstalled it.
C19_AlwaysMakeRebuildsAll ==
    \A p \in PkgNames(cfg) :
        (task[p].withStop /\ task[p].entered /\ task[p].pc \in {"ret", "done"}
            /\ ~task[p].err) => task[p].ranBuild

\* The packages that a Build with the package arguments `filter` is to
\* attempt: every package without arguments, else the arguments and all
\* their transitive dependencies.
Attempted(c, filter) ==
    IF filter = <<>> THEN PkgNames(c)
    ELSE Range(filter) \cup UNION {TransitiveDeps(c, n) : n \in Range(filter)}

Submitted == {p \in PkgNames(cfg) : task[p].pc # "idle"}

\* C20: Build submits tasks for packages of Attempted only; when it has
\* returned and nothing stopped it, the packages with a task are exactly
\* those of Attempted; and no package is submitted twice: the task that a
\* step submits was idle before.
C20_FilterClosureSubmitted ==
    /\ [](Submitted \subseteq Attempted(cfg, main.packageFilter))
    /\ []((ValidCatalog(cfg) /\ ~stopped /\ main.pc \in {"summary", "exit", "exited"})
            => Submitted = Attempted(cfg, main.packageFilter))
    /\ [][\A p \in PkgNames(cfg) :
            (pool'.wg = pool.wg + 1 /\ task'[p] # task[p]) => task[p].pc = "idle"]_vars

\* Build with the argument c has returned without a stop: c and its
\* dependencies b and, through b, a have run; x was never submitted.
C20_Witness ==
    /\ main.packageFilter = <<"c">>
    /\ main.pc = "exited" /\ ~stopped
    /\ Submitted = {"a", "b", "c"}
    /\ \A p \in Submitted : task[p].pc = "done" /\ task[p].entered

\* C21: when a Wait call returns, every task submitted before the call has
\* ended: a Submit task has run to completion, a SubmitWithStop task has run
\* to completion or was abandoned. This holds for every Wait call on the same
\* pool, also for tasks submitted after an earlier Wait returned.
C21_WaitDrainsPool ==
    [][(main.pc = "wait" /\ main'.pc # "wait") =>
          \A t \in DOMAIN task :
              /\ task[t].pc \in EndPcs \cup {"idle"}
              /\ (task[t].pc # "idle" /\ ~task[t].withStop) => task[t].pc = "done"]_vars

\* A pool reused: the first Wait returned with one Submit task, the second
\* with two more tasks that were submitted after the first had returned, one
\* of them by Submit, and all have run to completion.
C21_Witness ==
    /\ Len(call.returned) = 2
    /\ Cardinality(call.returned[1]) = 1
    /\ call.returned[2] = PoolTasks
    /\ \A t \in PoolTasks : task[t].pc = "done"
    /\ \E t \in call.returned[1], u \in PoolTasks \ call.returned[1] :
          ~task[t].withStop /\ ~task[u].withStop

\* C22: whatever the cache file was before, after WriteBuild(pkg1, s1, h1)
\* followed by WriteInstall(pkg2, s2, h2) the file holds a record whose url
\* and build are those of pkg1, whose install is that of pkg2, and whose env,
\* host and sysroot are those of the second call.
C22_WriteBuildThenInstall ==
    call.op = "WriteInstall" =>
        /\ disk["a"].cache.state = "ok"
        /\ disk["a"].cache.url = cfg[1].url
        /\ disk["a"].cache.build = cfg[1].build
        /\ disk["a"].cache.install = cfg[2].install
        /\ disk["a"].cache.env = cfg[2].env
        /\ disk["a"].cache.host = call.host
        /\ disk["a"].cache.sysroot = call.sysroot

\* C23: when the fetch of a package whose url ends in ".git" has cloned the
\* repository into the package's source directory, the task proceeds to the
\* BUILD recipe (no archive is unpacked on the way).
C23_GitCloneThenBuild ==
    [][\A p \in PkgNames(cfg) :
          (/\ isGitURL(ThePkg(p).url)
           /\ task[p].pc = "fetch"
           /\ disk[p].source = "absent"
           /\ disk'[p].source = "complete") => task'[p].pc = "build"]_vars

IsPrefix(a, b) == Len(a) <= Len(b) /\ \A i \in 1..Len(a) : a[i] = b[i]

\* The attempts that one downloadFile call has made.
Attempts == Len(call.errs) + (IF call.ret = "nil" /\ call.attempt > 0 THEN 1 ELSE 0)

\* C24: a download makes up to 3 retries after its first attempt, waiting
\* 1s, 2s and 4s before them; it stops at the first attempt that succeeds,
\* and it reports failure only when the first attempt and all 3 retries have
\* failed.
C24_ThreeRetriesWithBackoff ==
    call.op = "downloadFile" =>
        /\ IsPrefix(call.delays, <<1, 2, 4>>)
        /\ call.ret = "nil" => Len(call.delays) = Len(call.errs)
        /\ call.ret = "failed" => (Attempts = 1 + 3 /\ call.delays = <<1, 2, 4>>)

\* The entries of an archive that are no PAX global header.
RealEntries(archive) == SelectSeq(archive, LAMBDA e : e.type # "pax")

SubstTwiceIsOnce ==
    (call.op = "Subst" /\ Len(call.returned) = 2) => call.returned[2] = call.returned[1]

\* C26 as stated: for every environment and every string s,
\* Subst(Subst(s)) = Subst(s).
C26_SubstIdempotent_AnyValues == SubstTwiceIsOnce

\* The values of the environment are not empty and hold neither "$" nor "{".
PlainValues(env) ==
    \A n \in DOMAIN env :
        env[n] # <<>> /\ \A k \in 1..Len(env[n]) : env[n][k] \notin {"$", "{"}

\* C26: for every environment whose values are not empty and hold neither
\* "$" nor "{", and every string s, Subst(Subst(s)) = Subst(s).
C26_SubstIdempotent == PlainValues(call.env) => SubstTwiceIsOnce

\* Subst was applied twice to "${A}${B}}" with A = "a" and B = "b}": the
\* first call replaced both references, the second changed nothing.
C26_Witness ==
    /\ call.op = "Subst"
    /\ call.env = (<<"A">> :> <<"a">>) @@ (<<"B">> :> <<"b", "}">>)
    /\ call.s = <<"$", "{", "A", "}", "$", "{", "B", "}", "}">>
    /\ call.returned = <<<<"a", "b", "}", "}">>, <<"a", "b", "}", "}">>>>

\* The task of p has ended with "up to date, skipping": it looked at the
\* cache and ran no recipe.
Skipped(p) ==
    /\ task[p].withStop /\ task[p].entered
    /\ task[p].pc \in {"ret", "done"}
    /\ ~task[p].err /\ ~task[p].ranBuild /\ ~task[p].ranInstall

\* C27: a package is skipped as up to date only if its most recent INSTALL
\* recipe succeeded: after a run in which the INSTALL of p failed, no later
\* run skips p before an INSTALL of p has succeeded.
C27_SkipOnlyAfterInstall ==
    \A p \in PkgNames(cfg) :
        (~builderCfg.DryRun /\ Skipped(p)) => call.lastInstall[p] = "ok"

\* C28: when the BUILD recipe of a package has run in the current run, the
\* source tree it ran in came from the package's current url, and the url
\* that WriteBuild then stored in the cache record is the url the source
\* tree came from.
C28_BuildRunsInCurrentSource ==
    \A p \in PkgNames(cfg) :
        (main.pc # "exited" /\ task[p].ranBuild) =>
            /\ disk[p].srcUrl = ThePkg(p).url
            /\ (task[p].built /\ disk[p].cache.state = "ok")
                    => disk[p].cache.url = disk[p].srcUrl

\* No recipe of p has run although a direct or transitive dependency of p
\* has a failure result.
NoRecipeAfterFailedDependency ==
    \A p \in PkgNames(cfg) :
        (\E q \in TransitiveDeps(cfg, p) : HasFailure(results, q)) =>
            ~task[p].ranBuild /\ ~task[p].ranInstall

\* C29 as stated: neither BUILD nor INSTALL of a package runs in a run in
\* which one of its direct or transitive dependencies ended with a failure
\* result, with and without fail-fast.
C29_NoRecipeAfterFailedDependency_Always == NoRecipeAfterFailedDependency

\* C29: with fail-fast, neither BUILD nor INSTALL of a package runs in a run
\* in which one of its direct or transitive dependencies ended with a
\* failure result.
C29_NoRecipeAfterFailedDependency == builderCfg.FailFast => NoRecipeAfterFailedDependency

\* A fail-fast run with the argument c has ended: the dependency a of b and
\* c has a failure result, and b and c were never submitted.
C29_Witness ==
    /\ builderCfg.FailFast
    /\ main.packageFilter = <<"c">>
    /\ main.pc = "exited"
    /\ HasFailure(results, "a")
    /\ task["b"].pc = "idle" /\ task["c"].pc = "idle"

\* C30: during Build the cache file of a package n changes only in a step
\* of n's own task, which writes it, or in the InvalidateDependents step of
\* the task of a package of a strictly earlier level, which removes it while
\* the task of n has not been submitted: never while n's task is running or
\* after it has ended.
C30_CacheFileOwnedByTask ==
    [][\A n \in PkgNames(cfg) :
          disk'[n].cache # disk[n].cache =>
              \/ /\ task[n].pc \in {"wb", "wi"}
                 /\ task'[n].pc # task[n].pc
                 /\ disk'[n].cache.state = "ok"
              \/ /\ disk'[n].cache = CacheAbsent
                 /\ task[n].pc = "idle"
                 /\ \E p \in EarlierLevel(n) :
                       task[p].pc = "inval" /\ task'[p].pc # "inval"]_vars

\* The task of a has written a's cache file and removed those of b and c,
\* whose tasks have not been submitted.
C30_Witness ==
    /\ call.disk0["a"].cache.state = "absent" /\ disk["a"].cache.state = "ok"
    /\ task["a"].pc = "install"
    /\ \A n \in {"b", "c"} :
          /\ call.disk0[n].cache.state = "ok"
          /\ disk[n].cache.state = "absent"
          /\ task[n].pc = "idle"

\* C31: in a package task BUILD starts only with the source directory in
\* place, there from the start of the run or fetched and extracted by the
\* task; INSTALL on the rebuild path starts only after BUILD succeeded and
\* its cache steps were taken; and a task on the rebuild path that ends
\* without a successful BUILD has run no INSTALL and has recorded a failure.
C31_FetchBuildInstallOrder ==
    /\ [][\A p \in PkgNames(cfg) :
            /\ (task'[p].ranBuild /\ ~task[p].ranBuild) =>
                  /\ task[p].pc = "build"
                  /\ disk[p].source # "absent"
                  /\ call.disk0[p].source # "absent" \/ disk[p].source = "complete"
            /\ (task'[p].ranInstall /\ ~task[p].ranInstall /\ task[p].needsRebuild) =>
                  /\ task[p].pc = "install"
                  /\ task[p].ranBuild /\ task[p].built /\ ~task[p].err]_vars
    /\ [](\A p \in PkgNames(cfg) :
            (/\ ~builderCfg.DryRun
             /\ task[p].needsRebuild /\ ~task[p].built
             /\ task[p].pc \in {"failed", "ret", "done"}) =>
                /\ ~task[p].ranInstall
                /\ HasFailure(results, p) /\ ~LastSuccess(p))

\* The task of a, never built before, fetched the source, ran BUILD and then
\* INSTALL and ended; the task of b, set to rebuild by it, failed in BUILD
\* and ended without INSTALL.
C31_Witness ==
    /\ call.disk0["a"] = NeverBuilt
    /\ task["a"].pc = "done" /\ task["a"].ranBuild /\ task["a"].ranInstall
    /\ disk["a"].source = "complete"
    /\ task["b"].pc = "done" /\ task["b"].ranBuild /\ ~task["b"].built
    /\ ~task["b"].ranInstall

\* C32: a step that writes a package's cache file is the WriteBuild that
\* directly follows the package's successful BUILD script or the
\* WriteInstall that directly follows its successful INSTALL script; a
\* successful script is directly followed by that write, and a step in which
\* a fetch, BUILD or INSTALL fails leaves the package's cache file as it was.
C32_CacheWrittenOnlyOnSuccess ==
    [][\A p \in PkgNames(cfg) :
          /\ (disk'[p].cache # disk[p].cache /\ disk'[p].cache.state # "absent") =>
                \/ /\ task[p].pc = "wb" /\ task[p].ranBuild
                   /\ ~task[p].err /\ ~HasFailure(results, p)
                   /\ disk'[p].cache = WriteBuild(disk[p].cache, builderCfg.sysroot,
                                                  builderCfg.host, ThePkg(p))
                \/ /\ task[p].pc = "wi" /\ task[p].ranInstall
                   /\ ~task[p].err /\ ~HasFailure(results, p)
                   /\ disk'[p].cache = WriteInstall(disk[p].cache, builderCfg.sysroot,
                                                    builderCfg.host, ThePkg(p))
          /\ (task'[p].ranBuild /\ ~task[p].ranBuild /\ task'[p].pc # "failed") =>
                task'[p].pc = "wb"
          /\ (task'[p].ranInstall /\ ~task[p].ranInstall /\ task'[p].pc # "failed") =>
                task'[p].pc = "wi"
          /\ (task[p].pc \in {"fetch", "build", "install"} /\ task'[p].pc = "failed") =>
                /\ disk'[p].cache = disk[p].cache
                /\ HasFailure(results', p)]_vars

\* The INSTALL script of a, never built before, failed after a successful
\* BUILD: the cache file holds what WriteBuild wrote and no install text.
C32_Witness ==
    /\ call.disk0["a"] = NeverBuilt
    /\ task["a"].pc = "done" /\ task["a"].built /\ task["a"].ranInstall /\ task["a"].err
    /\ disk["a"].cache.state = "ok"
    /\ disk["a"].cache.build = ThePkg("a").build
    /\ disk["a"].cache.install = 0

\* C33: in a real run, when the task of a package that is to be rebuilt
\* finds a cache record with another url than the package's, the step before
\* the fetch removes the source tree and the archive beside it and keeps the
\* cache file, and BUILD then starts only in a complete source tree fetched
\* from the package's current url.
C33_UrlChangeCleansAndRefetches ==
    [][\A p \in PkgNames(cfg) :
          LET changed == /\ ~builderCfg.DryRun
                         /\ task[p].needsRebuild
                         /\ disk[p].cache.state = "ok"
                         /\ disk[p].cache.url # ThePkg(p).url
          IN  /\ (changed /\ task[p].pc = "prep" /\ task'[p].pc # "prep") =>
                    /\ task'[p].pc = "fetch"
                    /\ disk'[p].source = "absent" /\ ~disk'[p].archive
                    /\ disk'[p].cache = disk[p].cache
              /\ (changed /\ task'[p].ranBuild /\ ~task[p].ranBuild) =>
                    /\ disk[p].source = "complete"
                    /\ disk[p].srcUrl = ThePkg(p).url
                    /\ disk[p].archive]_vars

\* The url of a was edited after the run that built it; the next run has
\* fetched the source again from the new url and run BUILD.
C33_Witness ==
    /\ call.disk0["a"].cache.state = "ok"
    /\ call.disk0["a"].cache.url # ThePkg("a").url
    /\ call.disk0["a"].source = "complete"
    /\ call.disk0["a"].srcUrl = call.disk0["a"].cache.url
    /\ task["a"].ranBuild
    /\ disk["a"].srcUrl = ThePkg("a").url

\* C34: BUILD runs only in a source tree whose fetch and extraction
\* completed: the source directory of a package whose BUILD script has run
\* in this run is a complete one, also in a run that follows a failed clone
\* or a failed extraction.
C34_BuildOnlyInCompleteSource ==
    \A p \in PkgNames(cfg) :
        (main.pc # "exited" /\ task[p].ranBuild) => disk[p].source = "complete"

\* The cache record d agrees with pkg in url, build, env, host and sysroot,
\* the source directory is there, and the cached install text is not the
\* package's.
OnlyInstallDiffers(d, pkg) ==
    /\ d.cache.state = "ok"
    /\ d.cache.url = pkg.url /\ d.cache.build = pkg.build
    /\ d.cache.env = pkg.env
    /\ d.cache.host = builderCfg.host /\ d.cache.sysroot = builderCfg.sysroot
    /\ d.source # "absent"
    /\ d.cache.install # pkg.install

\* Without always_install, the task of p found nothing to rebuild and
\* something to reinstall.
InstallOnly(p) ==
    /\ ~builderCfg.AlwaysInstall
    /\ task[p].entered /\ ~task[p].needsRebuild /\ task[p].needsReinstall

\* Without always_install a task that finds a record of which only the
\* install text differs decides to reinstall only; such a task never fetches
\* or builds, and its steps leave the package's source and archive and every
\* other package's files alone.
InstallOnlyRunsNoBuild ==
    /\ [][\A p \in PkgNames(cfg) :
            /\ (/\ ~builderCfg.AlwaysInstall
                /\ task[p].pc = "check" /\ OnlyInstallDiffers(disk[p], ThePkg(p))
                /\ task'[p].pc # "check")
                  => (task'[p].pc = "check2" /\ ~task'[p].needsRebuild)
            /\ (/\ ~builderCfg.AlwaysInstall
                /\ task[p].pc = "check2" /\ OnlyInstallDiffers(disk[p], ThePkg(p))
                /\ task'[p].pc # "check2")
                  => (task'[p].pc = "prep" /\ task'[p].needsReinstall)
            /\ (InstallOnly(p) /\ task'[p] # task[p])
                  => /\ \A m \in PkgNames(cfg) \ {p} : disk'[m] = disk[m]
                     /\ disk'[p].source = disk[p].source
                     /\ disk'[p].srcUrl = disk[p].srcUrl
                     /\ disk'[p].archive = disk[p].archive]_vars
    /\ [](\A p \in PkgNames(cfg) :
            InstallOnly(p) =>
                /\ ~task[p].ranBuild /\ ~task[p].built
                /\ task[p].pc \notin {"fetch", "build", "wb", "inval"})

StepNames == [i \in 1..Len(call.steps) |-> call.steps[i].step]

StepFailed(name) == \E i \in 1..Len(call.steps) : call.steps[i] = Step(name, FALSE)

SomeStepSucceeded == \E i \in 1..Len(call.steps) : call.steps[i].ok

\* `make clean` runs only without a recipe or after the recipe failed, the
\* source directory is removed only after `make clean` failed, and after a
\* step that succeeded the cache file is absent.
CleanFallbackOrder ==
    /\ "make clean" \in Range(StepNames) =>
          /\ ~call.hasClean \/ StepFailed("clean")
          /\ call.hasClean => StepNames[1] = "clean" /\ StepNames[2] = "make clean"
    /\ "remove" \in Range(StepNames) =>
          /\ StepFailed("make clean")
          /\ StepNames[Len(StepNames)] = "remove"
    /\ "clean" \in Range(StepNames) => call.hasClean
    /\ SomeStepSucceeded => disk["a"].cache.state = "absent"

C37_SecondRunSkipsAll ==
    (call.run > 1 /\ ~call.failed /\ ~builderCfg.AlwaysInstall) =>
        /\ disk = call.disk0
        /\ \A p \in PkgNames(cfg) :
              /\ ~task[p].ranBuild /\ ~task[p].ranInstall /\ ~task[p].err
              /\ task[p].pc \in {"ret", "done"} => Skipped(p)
        /\ main.pc = "exited" => \A p \in PkgNames(cfg) : Skipped(p)

\* C38: under fair scheduling every run ends: main comes back from Build
\* and exits; every Wait that main enters returns; a goroutine that is
\* submitted ends, having run its task or abandoned it; and when main has
\* exited no pool slot is held and no goroutine is outstanding.
C38_BuildTerminates ==
    /\ <>(main.pc = "exited")
    /\ (main.pc = "wait") ~> (main.pc # "wait")
    /\ \A p \in PkgNames(SideChain) :
          (task[p].pc \notin {"idle"} \cup EndPcs) ~> (task[p].pc \in EndPcs)
    /\ [](main.pc = "exited" =>
            /\ pool.sem = 0 /\ pool.wg = 0
            /\ \A p \in PkgNames(cfg) : task[p].pc \in {"idle"} \cup EndPcs)

\* With one slot and fail-fast, the task of a failed and closed the stop
\* channel while the goroutine of x was waiting for the slot; x was
\* abandoned and main has exited.
C38_Witness ==
    /\ builderCfg.MaxConcurrency <= 1 /\ builderCfg.FailFast
    /\ stopped
    /\ task["a"].pc = "done" /\ task["a"].err
    /\ task["x"].pc = "abandoned" /\ ~task["x"].entered
    /\ pool.sem = 0 /\ pool.wg = 0
    /\ main.pc = "exited"

\* C39: however the goroutines that call stop() interleave, the stop
\* channel is closed at most once and no close panics; when a call of stop
\* has returned the channel is closed and the flag is set; the flag is never
\* reset, so isStopped, once it returned true, returns true from then on.
C39_StopClosesOnce ==
    /\ [](call.closes <= 1 /\ ~call.panic)
    /\ []((\E t \in StopCallers : task[t].pc = "ret") => (stopped /\ call.closes = 1))
    /\ [][(stopped => stopped') /\ (call.seen => call'.seen)]_vars

\* Every goroutine has called stop and returned, isStopped has returned
\* true, and the channel was closed once.
C39_Witness ==
    /\ \A t \in StopCallers : task[t].pc = "ret"
    /\ call.seen /\ stopped
    /\ call.closes = 1 /\ ~call.panic

\* The layers that define key, and the entries of a ToSlice result for key.
Defining(envs, key) == {i \in 1..Len(envs) : key \in DOMAIN envs[i]}

FirstDefining(envs, key) ==
    CHOOSE i \in Defining(envs, key) : \A j \in Defining(envs, key) : i <= j

EntriesFor(out, key) ==
    {i \in 1..Len(out) : Len(out[i]) > Len(key) /\ SubSeq(out[i], 1, Len(key) + 1) = key \o <<"=">>}

\* C40: Get returns the value of the first layer that defines the key and
\* "not found" when none does; Set and PrependToVar leave every layer but
\* the first as it was; ToSlice has exactly one entry for every key that a
\* layer defines, none for another key, and the entry's value is the one
\* that Get returns for the key.
C40_LayeredEnvironment ==
    /\ call.op = "Get" =>
          IF Defining(disk, call.key) = {} THEN ~call.got.ok
          ELSE /\ call.got.ok
               /\ call.got.val = disk[FirstDefining(disk, call.key)][call.key]
    /\ call.op \in {"Set", "PrependToVar"} =>
          /\ Len(disk) = Len(call.envs0)
          /\ \A i \in 2..Len(disk) : disk[i] = call.envs0[i]
          /\ Len(disk) > 0 => call.key \in DOMAIN disk[1]
    /\ call.op = "ToSlice" =>
          \A key \in EnvKeys :
              IF Defining(disk, key) = {} THEN EntriesFor(call.out, key) = {}
              ELSE /\ Cardinality(EntriesFor(call.out, key)) = 1
                   /\ \A i \in EntriesFor(call.out, key) :
                         call.out[i] = key \o <<"=">> \o MergedGet(disk, key).val

====
